---- MODULE Spec2Model ----
(***************************************************************************)
(* Session working memory of the agentia playground: MemoryManager (idea,  *)
(* focus, todos, analysis cache, concerns, recommendations, the context    *)
(* summary), the extractor, the manage_todos tool and the chat turn of     *)
(* ContextAwareAgent.                                                      *)
(* Optional fields of the TypeScript types (priority?, createdAt?,         *)
(* completedAt?, a missing cache entry, an undefined return value) are     *)
(* sequences of length 0 (absent) or 1 (present).                          *)
(***************************************************************************)
EXTENDS Integers, Sequences, FiniteSets, TLC

VARIABLES
  now,              \* the clock read by Date.now() / new Date(), in ms
  todos,            \* context.workingMemory.todos, in storage order
  analyses,         \* context.workingMemory.analyses: its entries, in key order
  recommendations,  \* context.workingMemory.recommendations
  userConcerns,     \* context.workingMemory.userConcerns
  lastUpdatedAt,    \* context.lastUpdatedAt
  last,             \* the last call made on the session: its arguments and what it returned
  idea,             \* context.workingMemory.idea
  currentFocus,     \* context.workingMemory.currentFocus
  userMessage,      \* the message handed to the extractor, or to chat() last
  messageHistory,   \* ContextAwareAgent.messageHistory
  pending,          \* the agent.invoke() calls of this agent that have not returned yet
  systemPrompt,     \* the systemPrompt of the agent createAgent built last
  turn,             \* the number of chat() calls made on this agent
  self,             \* the agent object the calls are made on (this)
  agents,           \* the constructed agents: class, session, and the MemoryManager
                    \* their memory field refers to
  heap,             \* the fields of the MemoryManager objects other than this.memory
  parked            \* the private fields of the agent objects other than this

vars ==
  <<now, todos, analyses, recommendations, userConcerns, lastUpdatedAt, last,
    idea, currentFocus, userMessage, messageHistory, pending, systemPrompt, turn,
    self, agents, heap, parked>>

memVars == <<todos, analyses, recommendations, userConcerns, lastUpdatedAt>>

\* The fields of the agent object, and the other objects.
agentVars == <<userMessage, messageHistory, pending, systemPrompt, turn>>

objectVars == <<self, agents, heap, parked>>

restVars == <<idea, currentFocus, agentVars, objectVars>>

\* ------------------------------------------------------------------ bounds

\* Longest todo list stored or passed to updateTodos.
MaxTodos == 2

\* Longest todo list handed to the sort.
MaxSort == 3

\* Last clock reading of the todo and list specifications.
MaxNow == 1

\* Clock readings of the cache specification stay within MaxHours cache lifetimes.
MaxHours == 2

\* Longest message handed to the extractor, in pieces.
MaxWords == 3

\* Most chat() calls made on one agent.
MaxTurns == 2

\* Most agent objects constructed.
MaxAgents == 2

\* ------------------------------------------------------------------ values

Undefined == <<>>

Some(v) == <<v>>

TodoStatus == {"pending", "in_progress", "completed"}

TodoPriority == {"high", "medium", "low"}

Kinds == {"competitor", "market", "customer", "vcReport"}

\* Inputs the callers draw from.
Contents == {"A", "B"}

OptPriority == {Undefined} \cup {Some(p) : p \in TodoPriority}

\* Payloads cached for an analysis; the empty string is a tool result with no text.
Data == {"", "report"}

Strings == {"pricing", "risks", "market"}

\* ------------------------------------------------------------------ calls

\* op: the operation; idx, str, list: its arguments; val, flag, list: what it
\* returned; threw: the error raised inside it; for manage_todos, flag says
\* whether a memory context was handed to manageTodos.
NoProgress == [total |-> 0, completed |-> 0, inProgress |-> 0, pending |-> 0,
               percentage |-> [num |-> 0, den |-> 1]]

\* text: the lines of a returned text; progress: what getProgress() returned;
\* idea: what extractIdeaFromMessage() returned (Undefined for null).
NoCall ==
  [op |-> "new", idx |-> 0, str |-> "", list |-> <<>>, val |-> Undefined,
   flag |-> FALSE, threw |-> Undefined, text |-> <<>>, progress |-> NoProgress,
   idea |-> Undefined]

Call(op) == [NoCall EXCEPT !.op = op]

\* ------------------------------------------------------------------ MemoryManager

\* const basePrompt: the fixed part of the system prompt, as one line.
basePrompt == <<"You are a helpful and insightful startup advisor AI.">>

\* An agent object: its class, the session it serves and the MemoryManager
\* object its memory field refers to.
agentObject(class, session, memory) == [class |-> class, session |-> session, memory |-> memory]

\* new ContextAwareAgent(tools): agent 1, holding the new MemoryManager 1, with
\* no message yet and the system prompt built over the empty memory.
InitObjects ==
  /\ messageHistory = <<>>
  /\ pending = <<>>
  /\ systemPrompt = basePrompt
  /\ turn = 0
  /\ self = 1
  /\ agents = (1 :> agentObject("ContextAwareAgent", 1, 1))
  /\ heap = <<>>
  /\ parked = <<>>

InitAgent ==
  /\ idea = Undefined
  /\ currentFocus = Undefined
  /\ userMessage = <<>>
  /\ InitObjects

Init ==
  /\ now = 0
  /\ todos = <<>>
  /\ analyses = <<>>
  /\ recommendations = <<>>
  /\ userConcerns = <<>>
  /\ lastUpdatedAt = 0
  /\ last = NoCall
  /\ InitAgent

\* private touch(): lastUpdatedAt = new Date()
touch == lastUpdatedAt' = now

Range(s) == {s[i] : i \in 1..Len(s)}

\* Array.prototype.find: the first element with this content, or undefined.
findByContent(list, content) ==
  IF \E i \in 1..Len(list) : list[i].content = content
  THEN Some(list[CHOOSE i \in 1..Len(list) :
                   /\ list[i].content = content
                   /\ \A j \in 1..(i - 1) : list[j].content # content])
  ELSE Undefined

\* ------------------------------------------------------------------ YJ1 sort

STATUS_PRIORITY(s) ==
  CASE s = "in_progress" -> 0
    [] s = "pending" -> 1
    [] s = "completed" -> 2

PRIORITY_MAP(p) ==
  CASE p = "high" -> 0
    [] p = "medium" -> 1
    [] p = "low" -> 2

\* a.priority || "medium"
priorityOrMedium(t) == IF t.priority = Undefined THEN "medium" ELSE t.priority[1]

\* The comparator with the newest todo first in the third layer.
compareTodosNewestFirst(a, b) ==
  LET statusDiff == STATUS_PRIORITY(a.status) - STATUS_PRIORITY(b.status)
      priorityDiff == PRIORITY_MAP(priorityOrMedium(a)) - PRIORITY_MAP(priorityOrMedium(b))
  IN IF statusDiff # 0 THEN statusDiff
     ELSE IF priorityDiff # 0 THEN priorityDiff
     ELSE IF a.createdAt # Undefined /\ b.createdAt # Undefined
          THEN b.createdAt[1] - a.createdAt[1]
          ELSE 0

\* The comparator handed to Array.prototype.sort.
compareTodos(a, b) ==
  LET statusDiff == STATUS_PRIORITY(a.status) - STATUS_PRIORITY(b.status)
      priorityDiff == PRIORITY_MAP(priorityOrMedium(a)) - PRIORITY_MAP(priorityOrMedium(b))
  IN IF statusDiff # 0 THEN statusDiff
     ELSE IF priorityDiff # 0 THEN priorityDiff
     ELSE IF a.createdAt # Undefined /\ b.createdAt # Undefined
          THEN a.createdAt[1] - b.createdAt[1]
          ELSE 0

\* Array.prototype.sort is stable: x goes behind every element it does not precede.
RECURSIVE insertSorted(_, _)
insertSorted(sorted, x) ==
  IF sorted = <<>> THEN <<x>>
  ELSE IF compareTodos(sorted[Len(sorted)], x) > 0
       THEN Append(insertSorted(SubSeq(sorted, 1, Len(sorted) - 1), x), sorted[Len(sorted)])
       ELSE Append(sorted, x)

RECURSIVE sortList(_)
sortList(list) ==
  IF list = <<>> THEN <<>>
  ELSE insertSorted(sortList(SubSeq(list, 1, Len(list) - 1)), list[Len(list)])

\* sortTodos(): [...todos].sort(comparator)
sortTodos == sortList(todos)

\* ------------------------------------------------------------------ todos

\* addTodo(content, activeForm, priority = "medium")
AddTodo(content, activeForm, priority) ==
  /\ Len(todos) < MaxTodos
  /\ todos' = Append(todos,
       [content |-> content, activeForm |-> activeForm, status |-> "pending",
        priority |-> IF priority = Undefined THEN Some("medium") ELSE priority,
        createdAt |-> Some(now), completedAt |-> Undefined])
  /\ touch
  /\ last' = [Call("addTodo") EXCEPT !.str = content]
  /\ UNCHANGED <<now, analyses, recommendations, userConcerns>>
  /\ UNCHANGED restVars

\* updatedTodo with the incoming createdAt taken before the stored one.
updatedTodoIncomingFirst(newTodo, stored, t) ==
  LET existingTodo == findByContent(stored, newTodo.content)
  IN [newTodo EXCEPT
        !.createdAt =
          IF newTodo.createdAt # Undefined THEN newTodo.createdAt
          ELSE IF existingTodo # Undefined THEN existingTodo[1].createdAt ELSE Some(t),
        !.completedAt =
          IF newTodo.status = "completed"
          THEN (IF newTodo.completedAt # Undefined THEN newTodo.completedAt ELSE Some(t))
          ELSE Undefined]

\* updatedTodo without the new Date() for a todo that brings no createdAt.
updatedTodoAsSupplied(newTodo, stored, t) ==
  LET existingTodo == findByContent(stored, newTodo.content)
  IN [newTodo EXCEPT
        !.createdAt =
          IF existingTodo # Undefined /\ existingTodo[1].createdAt # Undefined
          THEN existingTodo[1].createdAt
          ELSE newTodo.createdAt,
        !.completedAt =
          IF newTodo.status = "completed"
          THEN (IF newTodo.completedAt # Undefined THEN newTodo.completedAt ELSE Some(t))
          ELSE Undefined]

\* The element updateTodos maps one incoming todo to.
updatedTodo(newTodo, stored, t) ==
  LET existingTodo == findByContent(stored, newTodo.content)
  IN [newTodo EXCEPT
        !.createdAt =
          IF existingTodo # Undefined /\ existingTodo[1].createdAt # Undefined
          THEN existingTodo[1].createdAt
          ELSE IF newTodo.createdAt # Undefined THEN newTodo.createdAt ELSE Some(t),
        !.completedAt =
          IF newTodo.status = "completed"
          THEN (IF newTodo.completedAt # Undefined THEN newTodo.completedAt ELSE Some(t))
          ELSE Undefined]

\* updateTodos as a patch: stored todos the incoming list does not name stay.
UpdateTodosPatch(newTodos) ==
  /\ todos' = [i \in 1..Len(newTodos) |-> updatedTodo(newTodos[i], todos, now)]
              \o SelectSeq(todos, LAMBDA old : findByContent(newTodos, old.content) = Undefined)
  /\ touch
  /\ last' = [Call("updateTodos") EXCEPT !.list = newTodos]
  /\ UNCHANGED <<now, analyses, recommendations, userConcerns>>
  /\ UNCHANGED restVars

\* updateTodos(todos)
UpdateTodos(newTodos) ==
  /\ todos' = [i \in 1..Len(newTodos) |-> updatedTodo(newTodos[i], todos, now)]
  /\ touch
  /\ last' = [Call("updateTodos") EXCEPT !.list = newTodos]
  /\ UNCHANGED <<now, analyses, recommendations, userConcerns>>
  /\ UNCHANGED restVars

\* updateTodoStatus with the touch outside the index check.
UpdateTodoStatusTouching(index, status) ==
  /\ IF index + 1 \in 1..Len(todos)
     THEN todos' = [todos EXCEPT ![index + 1] =
                 [@ EXCEPT !.status = status,
                           !.completedAt = IF status = "completed" THEN Some(now) ELSE @]]
     ELSE UNCHANGED todos
  /\ touch
  /\ last' = [Call("updateTodoStatus") EXCEPT !.idx = index, !.str = status]
  /\ UNCHANGED <<now, analyses, recommendations, userConcerns>>
  /\ UNCHANGED restVars

\* updateTodoStatus taking index as a position of the sorted list getTodos() returns.
UpdateTodoStatusOfSorted(index, status) ==
  /\ IF index + 1 \in 1..Len(todos)
     THEN /\ \E k \in 1..Len(todos) :
               /\ todos[k] = sortTodos[index + 1]
               /\ todos' = [todos EXCEPT ![k] =
                     [@ EXCEPT !.status = status,
                               !.completedAt = IF status = "completed" THEN Some(now) ELSE @]]
          /\ touch
     ELSE UNCHANGED <<todos, lastUpdatedAt>>
  /\ last' = [Call("updateTodoStatus") EXCEPT !.idx = index, !.str = status]
  /\ UNCHANGED <<now, analyses, recommendations, userConcerns>>
  /\ UNCHANGED restVars

\* updateTodoStatus(index, status); index counts from 0
UpdateTodoStatus(index, status) ==
  /\ IF index + 1 \in 1..Len(todos)
     THEN /\ todos' = [todos EXCEPT ![index + 1] =
                 [@ EXCEPT !.status = status,
                           !.completedAt = IF status = "completed" THEN Some(now) ELSE @]]
          /\ touch
     ELSE UNCHANGED <<todos, lastUpdatedAt>>
  /\ last' = [Call("updateTodoStatus") EXCEPT !.idx = index, !.str = status]
  /\ UNCHANGED <<now, analyses, recommendations, userConcerns>>
  /\ UNCHANGED restVars

\* ------------------------------------------------------------------ getTodos

\* getTodos() sorting the stored array itself, without the copy.
GetTodosInPlace ==
  /\ todos' = sortTodos
  /\ last' = [Call("getTodos") EXCEPT !.list = sortTodos]
  /\ UNCHANGED <<now, analyses, recommendations, userConcerns, lastUpdatedAt>>
  /\ UNCHANGED restVars

\* getTodos()
GetTodos ==
  /\ last' = [Call("getTodos") EXCEPT !.list = sortTodos]
  /\ UNCHANGED <<now, todos, analyses, recommendations, userConcerns, lastUpdatedAt>>
  /\ UNCHANGED restVars


\* ------------------------------------------------------------------ analysis cache

\* const maxAge = 60 * 60 * 1000; // 1 hour
maxAge == 60 * 60 * 1000

\* analyses is a JavaScript object: its keys keep the order of their first
\* assignment, so it is the list of its entries {kind, data, timestamp}.
entryOf(type) ==
  IF \E i \in 1..Len(analyses) : analyses[i].kind = type
  THEN Some(analyses[CHOOSE i \in 1..Len(analyses) : analyses[i].kind = type])
  ELSE Undefined

\* cacheAnalysis keeping the timestamp of an entry it replaces.
CacheAnalysisKeepingTimestamp(type, data) ==
  /\ analyses' =
       IF entryOf(type) = Undefined
       THEN Append(analyses, [kind |-> type, data |-> data, timestamp |-> now])
       ELSE [i \in 1..Len(analyses) |->
               IF analyses[i].kind = type
               THEN [kind |-> type, data |-> data, timestamp |-> analyses[i].timestamp]
               ELSE analyses[i]]
  /\ touch
  /\ last' = [Call("cacheAnalysis") EXCEPT !.str = type, !.val = Some(data)]
  /\ UNCHANGED <<now, todos, recommendations, userConcerns>>
  /\ UNCHANGED restVars

\* cacheAnalysis(type, data)
CacheAnalysis(type, data) ==
  /\ analyses' =
       IF entryOf(type) = Undefined
       THEN Append(analyses, [kind |-> type, data |-> data, timestamp |-> now])
       ELSE [i \in 1..Len(analyses) |->
               IF analyses[i].kind = type
               THEN [kind |-> type, data |-> data, timestamp |-> now]
               ELSE analyses[i]]
  /\ touch
  /\ last' = [Call("cacheAnalysis") EXCEPT !.str = type, !.val = Some(data)]
  /\ UNCHANGED <<now, todos, recommendations, userConcerns>>
  /\ UNCHANGED restVars

\* getCachedAnalysis with an entry expiring at the age of one hour already.
getCachedAnalysisExclusive(type) ==
  LET cached == entryOf(type)
  IN IF cached = Undefined THEN Undefined
     ELSE IF now - cached[1].timestamp >= maxAge THEN Undefined
     ELSE Some(cached[1].data)

\* getCachedAnalysis(type): the data, or undefined
getCachedAnalysis(type) ==
  LET cached == entryOf(type)
  IN IF cached = Undefined THEN Undefined
     ELSE IF now - cached[1].timestamp > maxAge THEN Undefined
     ELSE Some(cached[1].data)

\* JavaScript's !!v for v undefined or a string
truthy(v) == v # Undefined /\ v[1] # ""

\* hasAnalysis(type): !!this.getCachedAnalysis(type)
hasAnalysis(type) == truthy(getCachedAnalysis(type))

\* getCompletedAnalyses() without the filter: every cached kind, expired or not.
getCompletedAnalysesStale == [i \in 1..Len(analyses) |-> analyses[i].kind]

\* getCompletedAnalyses(): Object.keys(analyses).filter(hasAnalysis)
getCompletedAnalyses ==
  LET keys == [i \in 1..Len(analyses) |-> analyses[i].kind]
      keep(k) == hasAnalysis(k)
  IN SelectSeq(keys, keep)

GetCachedAnalysis(type) ==
  /\ last' = [Call("getCachedAnalysis") EXCEPT !.str = type, !.val = getCachedAnalysis(type)]
  /\ UNCHANGED <<now, todos, analyses, recommendations, userConcerns, lastUpdatedAt>>
  /\ UNCHANGED restVars

HasAnalysis(type) ==
  /\ last' = [Call("hasAnalysis") EXCEPT !.str = type, !.flag = hasAnalysis(type)]
  /\ UNCHANGED <<now, todos, analyses, recommendations, userConcerns, lastUpdatedAt>>
  /\ UNCHANGED restVars

GetCompletedAnalyses ==
  /\ last' = [Call("getCompletedAnalyses") EXCEPT !.list = getCompletedAnalyses]
  /\ UNCHANGED <<now, todos, analyses, recommendations, userConcerns, lastUpdatedAt>>
  /\ UNCHANGED restVars

\* ------------------------------------------------------------------ recommendations, concerns

\* addRecommendation(recommendation)
AddRecommendation(recommendation) ==
  /\ IF recommendation \notin Range(recommendations)
     THEN /\ recommendations' = Append(recommendations, recommendation)
          /\ touch
     ELSE UNCHANGED <<recommendations, lastUpdatedAt>>
  /\ last' = [Call("addRecommendation") EXCEPT !.str = recommendation]
  /\ UNCHANGED <<now, todos, analyses, userConcerns>>
  /\ UNCHANGED restVars

\* clearRecommendations()
ClearRecommendations ==
  /\ recommendations' = <<>>
  /\ touch
  /\ last' = Call("clearRecommendations")
  /\ UNCHANGED <<now, todos, analyses, userConcerns>>
  /\ UNCHANGED restVars

\* addUserConcern without the includes() check.
AddUserConcernAlways(concern) ==
  /\ userConcerns' = Append(userConcerns, concern)
  /\ touch
  /\ last' = [Call("addUserConcern") EXCEPT !.str = concern]
  /\ UNCHANGED <<now, todos, analyses, recommendations>>
  /\ UNCHANGED restVars

\* addUserConcern(concern)
AddUserConcern(concern) ==
  /\ IF concern \notin Range(userConcerns)
     THEN /\ userConcerns' = Append(userConcerns, concern)
          /\ touch
     ELSE UNCHANGED <<userConcerns, lastUpdatedAt>>
  /\ last' = [Call("addUserConcern") EXCEPT !.str = concern]
  /\ UNCHANGED <<now, todos, analyses, recommendations>>
  /\ UNCHANGED restVars

\* ------------------------------------------------------------------ idea, focus

\* IdeaContext: description, category and targetMarket, each present or not
\* (keyFeatures and stage are never written nor read by the program).
NoFields == [description |-> Undefined, category |-> Undefined, targetMarket |-> Undefined]

\* { ...this.context.workingMemory.idea, ...idea }
mergeIdea(old, partial) ==
  LET base == IF old = Undefined THEN NoFields ELSE old[1]
  IN Some([f \in DOMAIN NoFields |-> IF partial[f] # Undefined THEN partial[f] ELSE base[f]])

\* updateIdea(idea: Partial<IdeaContext>)
UpdateIdea(partial) ==
  /\ idea' = mergeIdea(idea, partial)
  /\ touch
  /\ last' = Call("updateIdea")
  /\ UNCHANGED <<now, todos, analyses, recommendations, userConcerns, currentFocus>>
  /\ UNCHANGED <<agentVars, objectVars>>

\* hasIdea(): !!this.context.workingMemory.idea?.description
hasIdea == idea # Undefined /\ truthy(idea[1].description)

Focus == {"competitor", "market", "customer", "strategy", "general"}

\* setFocus(focus)
SetFocus(focus) ==
  /\ currentFocus' = Some(focus)
  /\ touch
  /\ last' = [Call("setFocus") EXCEPT !.str = focus]
  /\ UNCHANGED <<now, todos, analyses, recommendations, userConcerns, idea>>
  /\ UNCHANGED <<agentVars, objectVars>>

\* ------------------------------------------------------------------ progress

countStatus(list, status) == Len(SelectSeq(list, LAMBDA t : t.status = status))

\* getProgress() with the percentage taken over the todos that are not pending.
getProgressOfStarted ==
  LET completed == countStatus(todos, "completed")
      inProgress == countStatus(todos, "in_progress")
  IN [total |-> Len(todos), completed |-> completed,
      inProgress |-> inProgress,
      pending |-> countStatus(todos, "pending"),
      percentage |-> IF completed + inProgress > 0
                     THEN [num |-> completed * 100, den |-> completed + inProgress]
                     ELSE [num |-> 0, den |-> 1]]

\* getProgress(); the percentage (completed / todos.length) * 100 is kept as
\* the fraction num/den.
getProgress ==
  LET completed == countStatus(todos, "completed")
  IN [total |-> Len(todos), completed |-> completed,
      inProgress |-> countStatus(todos, "in_progress"),
      pending |-> countStatus(todos, "pending"),
      percentage |-> IF Len(todos) > 0
                     THEN [num |-> completed * 100, den |-> Len(todos)]
                     ELSE [num |-> 0, den |-> 1]]

GetProgress ==
  /\ last' = [Call("getProgress") EXCEPT !.progress = getProgress]
  /\ UNCHANGED <<now, todos, analyses, recommendations, userConcerns, lastUpdatedAt>>
  /\ UNCHANGED restVars

\* getCurrentTodo(): the first in_progress todo in storage order, or undefined
getCurrentTodo ==
  IF \E i \in 1..Len(todos) : todos[i].status = "in_progress"
  THEN Some(todos[CHOOSE i \in 1..Len(todos) :
                    /\ todos[i].status = "in_progress"
                    /\ \A j \in 1..(i - 1) : todos[j].status # "in_progress"])
  ELSE Undefined

\* getCurrentTodo() as a call: list holds the todo returned, if any.
GetCurrentTodo ==
  /\ last' = [Call("getCurrentTodo") EXCEPT !.list = getCurrentTodo]
  /\ UNCHANGED <<now, todos, analyses, recommendations, userConcerns, lastUpdatedAt>>
  /\ UNCHANGED restVars

\* ------------------------------------------------------------------ context summary

\* A text is the list of its lines (the text split at its line feeds); the
\* empty string is the empty list.
EmptyString == <<>>

\* Array.prototype.join
RECURSIVE join(_, _)
join(list, sep) ==
  IF list = <<>> THEN ""
  ELSE IF Len(list) = 1 THEN list[1]
  ELSE list[1] \o sep \o join(Tail(list), sep)

\* The status icons U+2713, U+26A1 and U+23F3, by name.
statusIcon(status) ==
  IF status = "completed" THEN "(check)"
  ELSE IF status = "in_progress" THEN "(bolt)"
  ELSE "(hourglass)"

priorityTag(priority) ==
  IF priority = Some("high") THEN " [HIGH]"
  ELSE IF priority = Some("low") THEN " [LOW]"
  ELSE ""

\* The line pushed for the todo at position index (from 0) of getTodos().
todoLine(todo, index) ==
  "  " \o ToString(index + 1) \o ". " \o statusIcon(todo.status) \o " "
       \o todo.content \o priorityTag(todo.priority)

\* buildContextSummary(): parts.join("\n") between the two markers, or "".
\* A part that starts with a line feed puts an empty line before its text.
buildContextSummary ==
  LET ideaPart ==
        IF hasIdea
        THEN <<"STARTUP IDEA: " \o idea[1].description[1]>>
             \o (IF truthy(idea[1].targetMarket)
                 THEN <<"Target Market: " \o idea[1].targetMarket[1]>> ELSE <<>>)
             \o (IF truthy(idea[1].category)
                 THEN <<"Category: " \o idea[1].category[1]>> ELSE <<>>)
        ELSE <<>>
      completed == getCompletedAnalyses
      analysesPart ==
        IF Len(completed) > 0
        THEN <<"", "COMPLETED ANALYSES: " \o join(completed, ", ")>> ELSE <<>>
      focusPart ==
        IF truthy(currentFocus)
        THEN <<"", "CURRENT FOCUS: " \o currentFocus[1]>> ELSE <<>>
      concernsPart ==
        IF Len(userConcerns) > 0
        THEN <<"", "USER CONCERNS:">>
             \o [i \in 1..Len(userConcerns) |-> "- " \o userConcerns[i]]
        ELSE <<>>
      recommendationsPart ==
        IF Len(recommendations) > 0
        THEN <<"", "RECOMMENDATIONS:">>
             \o [i \in 1..Len(recommendations) |-> "- " \o recommendations[i]]
        ELSE <<>>
      sorted == sortTodos
      progress == getProgress
      currentTodo == getCurrentTodo
      todosPart ==
        IF Len(sorted) > 0
        THEN <<"", "TODOS (" \o ToString(progress.completed) \o "/"
                   \o ToString(progress.total) \o " completed):">>
             \o [i \in 1..Len(sorted) |-> todoLine(sorted[i], i - 1)]
             \o (IF currentTodo # Undefined
                 THEN <<"", "CURRENT TASK: " \o currentTodo[1].activeForm>> ELSE <<>>)
        ELSE <<>>
      parts == ideaPart \o analysesPart \o focusPart \o concernsPart
               \o recommendationsPart \o todosPart
  IN IF Len(parts) > 0
     THEN <<"", "--- CONTEXT ---">> \o parts \o <<"--- END CONTEXT ---", "">>
     ELSE EmptyString

BuildContextSummary ==
  /\ last' = [Call("buildContextSummary") EXCEPT !.text = buildContextSummary]
  /\ UNCHANGED <<now, todos, analyses, recommendations, userConcerns, lastUpdatedAt>>
  /\ UNCHANGED restVars

\* ------------------------------------------------------------------ extractor

\* A message is the list of the pieces it is written with; a keyword is a list
\* of pieces too, and it occurs in a text iff its pieces occur there in a row.
\* A keyword that holds another keyword is cut at it: "training" holds "ai",
\* "marketplace" and "market size" hold "market". The Chinese keywords are
\* written in pinyin behind "zh-".
includes(text, keyword) ==
  \E i \in 0..(Len(text) - Len(keyword)) : SubSeq(text, i + 1, i + Len(keyword)) = keyword

\* Array.prototype.some over includes
includesSome(text, keywords) == \E k \in 1..Len(keywords) : includes(text, keywords[k])

\* The pieces written with capital letters, and their lower case.
lowerPiece(piece) ==
  CASE piece = "I want to build" -> "i want to build"
    [] piece = "I'm building" -> "i'm building"
    [] piece = "AI" -> "ai"
    [] piece = "TAM" -> "tam"
    [] piece = "Competitor" -> "competitor"
    [] piece = "Customer" -> "customer"
    [] piece = "VC" -> "vc"
    [] piece = "Platform" -> "platform"
    [] piece = "Startup" -> "startup"
    [] OTHER -> piece

\* String.prototype.toLowerCase
toLowerCase(message) == [i \in 1..Len(message) |-> lowerPiece(message[i])]

\* The message as one string.
textOf(message) == join(message, "")

\* const ideaIndicators
ideaIndicators ==
  << <<"zh-woxiangzuo">>, <<"zh-woyaozuo">>, <<"zh-wodasuanzuo">>, <<"zh-jianliyige">>,
     <<"zh-chuangjianyige">>, <<"zh-kaifa", "zh-yige">>, <<"i want to build">>,
     <<"i'm building">>, <<"i'm thinking about">>, <<"zh-wozaikaolv">> >>

\* const categoryKeywords, in the order of Object.entries
categoryKeywords ==
  << [name |-> "Developer Tools",
      keywords |-> << <<"zh-daima">>, <<"zh-kaifa">>, <<"code">>, <<"developer">>,
                      <<"programming">> >>],
     [name |-> "SaaS",
      keywords |-> << <<"saas">>, <<"zh-pingtai">>, <<"platform">>, <<"software">> >>],
     [name |-> "E-commerce",
      keywords |-> << <<"zh-dianshang">>, <<"zh-dianzishangwu">>, <<"ecommerce">>,
                      <<"market", "place">>, <<"zh-shangcheng">> >>],
     [name |-> "FinTech",
      keywords |-> << <<"zh-jinrong">>, <<"zh-zhifu">>, <<"fintech">>, <<"payment">>,
                      <<"banking">> >>],
     [name |-> "HealthTech",
      keywords |-> << <<"zh-jiankang">>, <<"zh-yiliao">>, <<"health">>, <<"medical">>,
                      <<"wellness">> >>],
     [name |-> "EdTech",
      keywords |-> << <<"zh-jiaoyu">>, <<"zh-xuexi">>, <<"education">>, <<"learning">>,
                      <<"tr", "ai", "ning">> >>],
     [name |-> "AI",
      keywords |-> << <<"ai">>, <<"zh-rengong", "zh-zhineng">>, <<"zh-jiqi", "zh-xuexi">>,
                      <<"machine ", "learning">>, <<"zh-zhineng">> >>] >>

\* const marketKeywords, in the order of Object.entries
marketKeywords ==
  << [name |-> "zh-xiaotuandui",
      keywords |-> << <<"zh-xiaotuandui">>, <<"small team">>, <<"startup">> >>],
     [name |-> "zh-qiye",
      keywords |-> << <<"zh-qiye">>, <<"enterprise">>, <<"zh-dagongsi">> >>],
     [name |-> "zh-gerenkaifazhe",
      keywords |-> << <<"zh-geren">>, <<"zh-kaifa", "zh-zhe">>, <<"developer">>,
                      <<"programmer">> >>],
     [name |-> "SMB",
      keywords |-> << <<"smb">>, <<"zh-zhongxiao", "zh-qiye">>, <<"small business">> >>] >>

\* for (const [name, keywords] of Object.entries(table)) { if (some) { ...; break } }
firstMatch(table, lowerMessage) ==
  IF \E i \in 1..Len(table) : includesSome(lowerMessage, table[i].keywords)
  THEN Some(table[CHOOSE i \in 1..Len(table) :
                    /\ includesSome(lowerMessage, table[i].keywords)
                    /\ \A j \in 1..(i - 1) : ~includesSome(lowerMessage, table[j].keywords)].name)
  ELSE Undefined

\* The category loop without its break: the last matching category stays.
lastMatch(table, lowerMessage) ==
  IF \E i \in 1..Len(table) : includesSome(lowerMessage, table[i].keywords)
  THEN Some(table[CHOOSE i \in 1..Len(table) :
                    /\ includesSome(lowerMessage, table[i].keywords)
                    /\ \A j \in (i + 1)..Len(table) :
                         ~includesSome(lowerMessage, table[j].keywords)].name)
  ELSE Undefined

\* extractIdeaFromMessage without the break in its two loops.
extractIdeaFromMessageNoBreak(message) ==
  LET lowerMessage == toLowerCase(message)
  IN IF ~includesSome(lowerMessage, ideaIndicators) THEN Undefined
     ELSE Some([description |-> Some(textOf(message)),
                category |-> lastMatch(categoryKeywords, lowerMessage),
                targetMarket |-> lastMatch(marketKeywords, lowerMessage)])

\* extractIdeaFromMessage(message): null (Undefined), or the partial idea
extractIdeaFromMessage(message) ==
  LET lowerMessage == toLowerCase(message)
  IN IF ~includesSome(lowerMessage, ideaIndicators) THEN Undefined
     ELSE Some([description |-> Some(textOf(message)),
                category |-> firstMatch(categoryKeywords, lowerMessage),
                targetMarket |-> firstMatch(marketKeywords, lowerMessage)])

\* The keywords of extractUserConcerns, in the order of its six tests.
concernKeywords ==
  << [name |-> "pricing",
      keywords |-> << <<"zh-dingjia">>, <<"zh-jiage">>, <<"pricing">>, <<"cost">> >>],
     [name |-> "competition",
      keywords |-> << <<"zh-jingdui">>, <<"zh-jingzheng">>, <<"competitor">>,
                      <<"competition">> >>],
     [name |-> "market",
      keywords |-> << <<"zh-shichang">>, <<"market">>, <<"opportunity">> >>],
     [name |-> "customer",
      keywords |-> << <<"zh-kehu">>, <<"zh-yonghu">>, <<"customer">>, <<"user">> >>],
     [name |-> "differentiation",
      keywords |-> << <<"zh-chayihua">>, <<"differentiat">>, <<"unique">>, <<"zh-youshi">> >>],
     [name |-> "risks",
      keywords |-> << <<"zh-fengxian">>, <<"risk">>, <<"challenge">>, <<"zh-tiaozhan">> >>] >>

\* extractUserConcerns(message)
extractUserConcerns(message) ==
  LET lowerMessage == toLowerCase(message)
      names == [i \in 1..Len(concernKeywords) |-> concernKeywords[i].name]
      fires(name) ==
        \E i \in 1..Len(concernKeywords) :
          concernKeywords[i].name = name /\ includesSome(lowerMessage, concernKeywords[i].keywords)
  IN SelectSeq(names, fires)

\* The keywords of the four tests of detectUserIntent.
competitorKeywords == << <<"zh-jingdui">>, <<"zh-jingzheng", "zh-duishou">>, <<"competitor">> >>

marketSizeKeywords == << <<"zh-shichang">>, <<"market", " size">>, <<"tam">>, <<"zh-jihui">> >>

customerKeywords ==
  << <<"zh-kehu">>, <<"zh-yonghu", "zh-huaxiang">>, <<"customer">>, <<"target audience">> >>

reportKeywords ==
  << <<"zh-wanzhengbaogao">>, <<"zh-pinggubaogao">>, <<"vc">>, <<"full report">>,
     <<"comprehensive">> >>

\* detectUserIntent with the customer test ahead of the market test.
detectUserIntentCustomerFirst(message) ==
  LET lowerMessage == toLowerCase(message)
  IN IF includesSome(lowerMessage, competitorKeywords) THEN "ask_competitor"
     ELSE IF includesSome(lowerMessage, customerKeywords) THEN "ask_customer"
     ELSE IF includesSome(lowerMessage, marketSizeKeywords) THEN "ask_market"
     ELSE IF includesSome(lowerMessage, reportKeywords) THEN "ask_report"
     ELSE "general"

\* detectUserIntent(message)
detectUserIntent(message) ==
  LET lowerMessage == toLowerCase(message)
  IN IF includesSome(lowerMessage, competitorKeywords) THEN "ask_competitor"
     ELSE IF includesSome(lowerMessage, marketSizeKeywords) THEN "ask_market"
     ELSE IF includesSome(lowerMessage, customerKeywords) THEN "ask_customer"
     ELSE IF includesSome(lowerMessage, reportKeywords) THEN "ask_report"
     ELSE "general"

ExtractIdeaFromMessage(message) ==
  /\ last' = [Call("extractIdeaFromMessage") EXCEPT
                !.list = message, !.idea = extractIdeaFromMessage(message)]
  /\ UNCHANGED <<now, todos, analyses, recommendations, userConcerns, lastUpdatedAt>>
  /\ UNCHANGED restVars

ExtractUserConcerns(message) ==
  /\ last' = [Call("extractUserConcerns") EXCEPT
                !.list = message, !.text = extractUserConcerns(message)]
  /\ UNCHANGED <<now, todos, analyses, recommendations, userConcerns, lastUpdatedAt>>
  /\ UNCHANGED restVars

DetectUserIntent(message) ==
  /\ last' = [Call("detectUserIntent") EXCEPT
                !.list = message, !.str = detectUserIntent(message)]
  /\ UNCHANGED <<now, todos, analyses, recommendations, userConcerns, lastUpdatedAt>>
  /\ UNCHANGED restVars

\* ------------------------------------------------------------------ manage_todos tool

MissingContext == "Memory context is required for todo management"

\* manageTodos returning quietly when it has no memory.
manageTodosQuiet(input, context) ==
  IF context = Undefined
  THEN [threw |-> Undefined, todos |-> todos, touched |-> FALSE]
  ELSE [threw |-> Undefined,
        todos |-> [i \in 1..Len(input) |-> updatedTodo(input[i], todos, now)],
        touched |-> TRUE]

\* manageTodos(input, context?): what it throws, and the todo list and the touch
\* it leaves; context is the memory it was handed, if any.
manageTodos(input, context) ==
  IF context = Undefined
  THEN [threw |-> Some(MissingContext), todos |-> todos, touched |-> FALSE]
  ELSE [threw |-> Undefined,
        todos |-> [i \in 1..Len(input) |-> updatedTodo(input[i], todos, now)],
        touched |-> TRUE]

\* The function createTool hands to the agent runtime for todoTool: it calls
\* execute(input) with the input alone and turns whatever is thrown into the
\* JSON {error, tool} it returns.
InvokeManageTodos(input) ==
  LET context == Undefined
      r == manageTodos(input, context)
  IN /\ todos' = r.todos
     /\ lastUpdatedAt' = IF r.touched THEN now ELSE lastUpdatedAt
     /\ last' = [Call("manage_todos") EXCEPT
                   !.list = input,
                   !.flag = (context # Undefined),
                   !.threw = r.threw,
                   !.val = IF r.threw # Undefined THEN Some("error") ELSE Some("updated")]
     /\ UNCHANGED <<now, analyses, recommendations, userConcerns>>
     /\ UNCHANGED restVars

\* ------------------------------------------------------------------ chat turn

\* The messages of the agent runtime: HumanMessage, AIMessage (with the tool
\* calls it asks for) and the tool's result message.
HumanMessage(content) ==
  [type |-> "human", content |-> content, tool_calls |-> <<>>, tool_call_id |-> Undefined]

AIMessage(content, tool_calls) ==
  [type |-> "ai", content |-> content, tool_calls |-> tool_calls, tool_call_id |-> Undefined]

ToolMessage(content, id) ==
  [type |-> "tool", content |-> content, tool_calls |-> <<>>, tool_call_id |-> Some(id)]

\* concerns.forEach((concern) => this.memory.addUserConcern(concern))
RECURSIVE withConcerns(_, _)
withConcerns(list, concerns) ==
  IF concerns = <<>> THEN list
  ELSE withConcerns(IF Head(concerns) \in Range(list) THEN list ELSE Append(list, Head(concerns)),
                    Tail(concerns))

\* focusOf with a focus for the report intent too.
focusOfEveryIntent(intent) ==
  CASE intent = "ask_competitor" -> Some("competitor")
    [] intent = "ask_market" -> Some("market")
    [] intent = "ask_customer" -> Some("customer")
    [] intent = "ask_report" -> Some("strategy")
    [] OTHER -> Undefined

\* The focus chat() sets for an intent, if any.
focusOf(intent) ==
  CASE intent = "ask_competitor" -> Some("competitor")
    [] intent = "ask_market" -> Some("market")
    [] intent = "ask_customer" -> Some("customer")
    [] OTHER -> Undefined

\* const cacheMap
cacheMap(intent) ==
  CASE intent = "ask_competitor" -> Some("competitor")
    [] intent = "ask_market" -> Some("market")
    [] intent = "ask_customer" -> Some("customer")
    [] intent = "ask_report" -> Some("vcReport")
    [] OTHER -> Undefined

\* checkCacheAndAdvise(intent): the cached value it looks up and logs, if any
checkCacheAndAdvise(intent) ==
  IF cacheMap(intent) = Undefined THEN Undefined ELSE getCachedAnalysis(cacheMap(intent)[1])

\* buildSystemPrompt(): basePrompt + this.memory.buildContextSummary()
buildSystemPrompt == basePrompt \o buildContextSummary

\* chat() building the system prompt first, ahead of the extraction.
ChatPromptFirst(message) ==
  LET ideaInfo == extractIdeaFromMessage(message)
      concerns == extractUserConcerns(message)
      intent == detectUserIntent(message)
      focus == focusOf(intent)
      merged == withConcerns(userConcerns, concerns)
      cached == checkCacheAndAdvise(intent)
  IN /\ agents[self].class = "ContextAwareAgent"
     /\ turn < MaxTurns
     /\ idea' = IF ideaInfo # Undefined THEN mergeIdea(idea, ideaInfo[1]) ELSE idea
     /\ userConcerns' = merged
     /\ currentFocus' = IF focus # Undefined THEN focus ELSE currentFocus
     /\ lastUpdatedAt' =
          IF ideaInfo # Undefined \/ merged # userConcerns \/ focus # Undefined
          THEN now ELSE lastUpdatedAt
     /\ UNCHANGED <<now, todos, analyses, recommendations>>
     /\ messageHistory' = Append(messageHistory, HumanMessage(textOf(message)))
     /\ systemPrompt' = buildSystemPrompt
     /\ pending' = Append(pending, [messages |-> messageHistory', systemPrompt |-> systemPrompt'])
     /\ userMessage' = message
     /\ turn' = turn + 1
     /\ last' = [Call("chat") EXCEPT !.list = message, !.str = intent, !.val = cached]
     /\ UNCHANGED objectVars

\* chat() answering from the cache, without the agent, when the cache check finds a value.
ChatShortCircuit(message) ==
  LET ideaInfo == extractIdeaFromMessage(message)
      concerns == extractUserConcerns(message)
      intent == detectUserIntent(message)
      focus == focusOf(intent)
      merged == withConcerns(userConcerns, concerns)
      cached == checkCacheAndAdvise(intent)
  IN /\ agents[self].class = "ContextAwareAgent"
     /\ turn < MaxTurns
     /\ idea' = IF ideaInfo # Undefined THEN mergeIdea(idea, ideaInfo[1]) ELSE idea
     /\ userConcerns' = merged
     /\ currentFocus' = IF focus # Undefined THEN focus ELSE currentFocus
     /\ lastUpdatedAt' =
          IF ideaInfo # Undefined \/ merged # userConcerns \/ focus # Undefined
          THEN now ELSE lastUpdatedAt
     /\ UNCHANGED <<now, todos, analyses, recommendations>>
     /\ messageHistory' = Append(messageHistory, HumanMessage(textOf(message)))
     /\ systemPrompt' = buildSystemPrompt'
     /\ pending' = IF truthy(cached) THEN pending
                   ELSE Append(pending, [messages |-> messageHistory', systemPrompt |-> systemPrompt'])
     /\ userMessage' = message
     /\ turn' = turn + 1
     /\ last' = [Call("chat") EXCEPT !.list = message, !.str = intent, !.val = cached]
     /\ UNCHANGED objectVars

\* chat(userMessage) up to its await: steps 1 to 7. The extraction, the focus
\* and the cache check run first, then the message is pushed, the agent is
\* recreated with the system prompt built over the memory as it is by then, and
\* agent.invoke({messages}) is called.
Chat(message) ==
  LET ideaInfo == extractIdeaFromMessage(message)
      concerns == extractUserConcerns(message)
      intent == detectUserIntent(message)
      focus == focusOf(intent)
      merged == withConcerns(userConcerns, concerns)
      cached == checkCacheAndAdvise(intent)
  IN /\ agents[self].class = "ContextAwareAgent"
     /\ turn < MaxTurns
     /\ idea' = IF ideaInfo # Undefined THEN mergeIdea(idea, ideaInfo[1]) ELSE idea
     /\ userConcerns' = merged
     /\ currentFocus' = IF focus # Undefined THEN focus ELSE currentFocus
     /\ lastUpdatedAt' =
          IF ideaInfo # Undefined \/ merged # userConcerns \/ focus # Undefined
          THEN now ELSE lastUpdatedAt
     /\ UNCHANGED <<now, todos, analyses, recommendations>>
     /\ messageHistory' = Append(messageHistory, HumanMessage(textOf(message)))
     /\ systemPrompt' = buildSystemPrompt'
     /\ pending' = Append(pending, [messages |-> messageHistory', systemPrompt |-> systemPrompt'])
     /\ userMessage' = message
     /\ turn' = turn + 1
     /\ last' = [Call("chat") EXCEPT !.list = message, !.str = intent, !.val = cached]
     /\ UNCHANGED objectVars

\* The cache kind cacheToolResults writes for a tool name, if any.
toolKind(toolName) ==
  CASE toolName = "competitor_analysis" -> Some("competitor")
    [] toolName = "market_sizing" -> Some("market")
    [] toolName = "customer_analysis" -> Some("customer")
    [] toolName = "vc_evaluation_report" -> Some("vcReport")
    [] OTHER -> Undefined

RECURSIVE flatten(_)
flatten(lists) == IF lists = <<>> THEN <<>> ELSE Head(lists) \o flatten(Tail(lists))

\* messages.find((m) => m.tool_call_id === toolCall.id)
findResult(messages, id) ==
  IF \E i \in 1..Len(messages) : messages[i].tool_call_id = Some(id)
  THEN Some(messages[CHOOSE i \in 1..Len(messages) :
                       /\ messages[i].tool_call_id = Some(id)
                       /\ \A j \in 1..(i - 1) : messages[j].tool_call_id # Some(id)])
  ELSE Undefined

\* toolResults with the calls taken last to first.
toolResultsLastFirst(messages) ==
  LET calls == flatten([i \in 1..Len(messages) |-> messages[i].tool_calls])
      cachedCalls == SelectSeq(calls, LAMBDA c :
                       findResult(messages, c.id) # Undefined /\ toolKind(c.name) # Undefined)
  IN [i \in 1..Len(cachedCalls) |->
        [kind |-> toolKind(cachedCalls[Len(cachedCalls) + 1 - i].name)[1],
         data |-> findResult(messages, cachedCalls[Len(cachedCalls) + 1 - i].id)[1].content]]

\* The cacheAnalysis calls cacheToolResults(messages) makes, in order: one for
\* every tool call of every message that has a result message and a cached kind.
toolResults(messages) ==
  LET calls == flatten([i \in 1..Len(messages) |-> messages[i].tool_calls])
      cachedCalls == SelectSeq(calls, LAMBDA c :
                       findResult(messages, c.id) # Undefined /\ toolKind(c.name) # Undefined)
  IN [i \in 1..Len(cachedCalls) |->
        [kind |-> toolKind(cachedCalls[i].name)[1],
         data |-> findResult(messages, cachedCalls[i].id)[1].content]]

\* analyses[type] = {data, timestamp} on a cache
cachePut(cache, type, data, t) ==
  IF \E i \in 1..Len(cache) : cache[i].kind = type
  THEN [i \in 1..Len(cache) |->
          IF cache[i].kind = type THEN [kind |-> type, data |-> data, timestamp |-> t]
          ELSE cache[i]]
  ELSE Append(cache, [kind |-> type, data |-> data, timestamp |-> t])

RECURSIVE cacheAll(_, _, _)
cacheAll(cache, writes, t) ==
  IF writes = <<>> THEN cache
  ELSE cacheAll(cachePut(cache, Head(writes).kind, Head(writes).data, t), Tail(writes), t)

\* What the agent runtime adds to the messages it was handed: its answer, or a
\* tool call, the tool's result and its answer. The analysis tools return
\* their report; manage_todos returns the error of InvokeManageTodos.
ToolNames == {"competitor_analysis", "vc_evaluation_report", "manage_todos"}

toolOutput(toolName) == IF toolName = "manage_todos" THEN MissingContext ELSE "report"

AgentTraces(messages) ==
  { <<AIMessage("answer", <<>>)>> }
  \cup { <<AIMessage("", <<[name |-> n, id |-> Len(messages) + 1]>>),
           ToolMessage(toolOutput(n), Len(messages) + 1),
           AIMessage("answer", <<>>)>> : n \in ToolNames }

\* Traces with more than one tool call per message and with calls that got no
\* result message: two calls of competitor_analysis, the second with an empty
\* result; a call of manage_todos next to one of vc_evaluation_report; a call
\* of vc_evaluation_report without a result.
ToolTraces(messages) ==
  LET id == Len(messages) + 1
  IN { <<AIMessage("", <<[name |-> "competitor_analysis", id |-> id],
                         [name |-> "competitor_analysis", id |-> id + 1]>>),
         ToolMessage(toolOutput("competitor_analysis"), id),
         ToolMessage("", id + 1),
         AIMessage("answer", <<>>)>>,
       <<AIMessage("", <<[name |-> "manage_todos", id |-> id],
                         [name |-> "vc_evaluation_report", id |-> id + 1]>>),
         ToolMessage(toolOutput("manage_todos"), id),
         ToolMessage(toolOutput("vc_evaluation_report"), id + 1),
         AIMessage("answer", <<>>)>>,
       <<AIMessage("", <<[name |-> "vc_evaluation_report", id |-> id]>>),
         AIMessage("answer", <<>>)>> }

\* chat() from the return of agent.invoke on: steps 8 to 10, for the i-th
\* call still waiting.
AgentReturns(i, trace) ==
  /\ agents[self].class = "ContextAwareAgent"
  /\ i \in 1..Len(pending)
  /\ LET messages == pending[i].messages \o trace
         writes == toolResults(messages)
     IN /\ messageHistory' = messages
        /\ analyses' = cacheAll(analyses, writes, now)
        /\ lastUpdatedAt' = IF writes # <<>> THEN now ELSE lastUpdatedAt
        /\ last' = [Call("chat returned") EXCEPT
                      !.list = trace, !.val = Some(messages[Len(messages)].content)]
  /\ pending' = SubSeq(pending, 1, i - 1) \o SubSeq(pending, i + 1, Len(pending))
  /\ UNCHANGED <<now, todos, recommendations, userConcerns, idea, currentFocus>>
  /\ UNCHANGED <<userMessage, systemPrompt, turn, objectVars>>

AgentError == "agent invocation failed"

\* chat() taking the user message back out of the history when the agent fails.
AgentFailsRollingBack(i) ==
  /\ agents[self].class = "ContextAwareAgent"
  /\ i \in 1..Len(pending)
  /\ pending' = SubSeq(pending, 1, i - 1) \o SubSeq(pending, i + 1, Len(pending))
  /\ messageHistory' = SelectSeq(messageHistory,
                          LAMBDA m : m # pending[i].messages[Len(pending[i].messages)])
  /\ last' = [Call("chat failed") EXCEPT !.list = pending[i].messages, !.threw = Some(AgentError)]
  /\ UNCHANGED <<now, memVars, idea, currentFocus>>
  /\ UNCHANGED <<userMessage, systemPrompt, turn, objectVars>>

\* await this.agent.invoke(...) rejects, for the i-th call still waiting:
\* chat() has no try/catch, so it rejects with the same error and its steps 8
\* to 10 do not run. list holds the messages the failed call was handed.
AgentFails(i) ==
  /\ agents[self].class = "ContextAwareAgent"
  /\ i \in 1..Len(pending)
  /\ pending' = SubSeq(pending, 1, i - 1) \o SubSeq(pending, i + 1, Len(pending))
  /\ last' = [Call("chat failed") EXCEPT !.list = pending[i].messages, !.threw = Some(AgentError)]
  /\ UNCHANGED <<now, memVars, idea, currentFocus>>
  /\ UNCHANGED <<userMessage, messageHistory, systemPrompt, turn, objectVars>>

\* ------------------------------------------------------------------ agents and their memories

\* The fields of this.memory and of this, as records.
memoryFields ==
  [todos |-> todos, analyses |-> analyses, recommendations |-> recommendations,
   userConcerns |-> userConcerns, lastUpdatedAt |-> lastUpdatedAt, idea |-> idea,
   currentFocus |-> currentFocus]

agentFields ==
  [userMessage |-> userMessage, messageHistory |-> messageHistory, pending |-> pending,
   systemPrompt |-> systemPrompt, turn |-> turn]

\* new MemoryManager(sessionId) at the time t
newMemory(t) ==
  [todos |-> <<>>, analyses |-> <<>>, recommendations |-> <<>>, userConcerns |-> <<>>,
   lastUpdatedAt |-> t, idea |-> Undefined, currentFocus |-> Undefined]

newAgentFields ==
  [userMessage |-> <<>>, messageHistory |-> <<>>, pending |-> <<>>,
   systemPrompt |-> basePrompt, turn |-> 0]

\* The next object of each kind.
nextManager == Cardinality(DOMAIN heap \cup {agents[self].memory}) + 1

nextAgent == Cardinality(DOMAIN agents) + 1

\* new ContextAwareAgent(tools): this.memory = new MemoryManager(sessionId)
NewContextAwareAgent ==
  /\ nextAgent <= MaxAgents
  /\ agents' = agents @@ (nextAgent :> agentObject("ContextAwareAgent", nextAgent, nextManager))
  /\ heap' = heap @@ (nextManager :> newMemory(now))
  /\ parked' = parked @@ (nextAgent :> newAgentFields)
  /\ last' = [Call("new ContextAwareAgent") EXCEPT !.idx = nextAgent]
  /\ UNCHANGED <<now, memVars, idea, currentFocus, agentVars, self>>

\* The BaseSubAgent constructor looking at sharedMemory before isolatedMemory.
subAgentMemorySharedFirst(config, fresh) ==
  IF config.sharedMemory # Undefined THEN config.sharedMemory[1] ELSE fresh

\* The MemoryManager the BaseSubAgent constructor keeps: fresh is the one
\* new MemoryManager() makes.
subAgentMemory(config, fresh) ==
  IF config.isolatedMemory THEN fresh
  ELSE IF config.sharedMemory # Undefined THEN config.sharedMemory[1]
  ELSE fresh

\* new BaseSubAgent({isolatedMemory, sharedMemory}); owner is the agent whose
\* getMemory() is handed over as sharedMemory, if any. A sub-agent that asks
\* for an isolated memory, or is handed none, is a session of its own;
\* otherwise it works in its owner's session.
NewSubAgent(isolatedMemory, owner) ==
  LET config == [isolatedMemory |-> isolatedMemory,
                 sharedMemory |-> IF owner = Undefined THEN Undefined
                                  ELSE Some(agents[owner[1]].memory)]
      memory == subAgentMemory(config, nextManager)
      session == IF isolatedMemory \/ owner = Undefined THEN nextAgent
                 ELSE agents[owner[1]].session
  IN /\ nextAgent <= MaxAgents
     /\ agents' = agents @@ (nextAgent :> agentObject("BaseSubAgent", session, memory))
     /\ heap' = IF memory = nextManager THEN heap @@ (memory :> newMemory(now)) ELSE heap
     /\ parked' = parked @@ (nextAgent :> newAgentFields)
     /\ last' = [Call("new BaseSubAgent") EXCEPT !.idx = nextAgent, !.flag = isolatedMemory]
     /\ UNCHANGED <<now, memVars, idea, currentFocus, agentVars, self>>

\* The next call is made on the agent a: its fields and the fields of its
\* MemoryManager are the ones the operations read and write from now on.
Switch(a) ==
  /\ a \in DOMAIN agents
  /\ a # self
  /\ self' = a
  /\ parked' = [b \in (DOMAIN parked \cup {self}) \ {a} |->
                  IF b = self THEN agentFields ELSE parked[b]]
  /\ userMessage' = parked[a].userMessage
  /\ messageHistory' = parked[a].messageHistory
  /\ pending' = parked[a].pending
  /\ systemPrompt' = parked[a].systemPrompt
  /\ turn' = parked[a].turn
  /\ IF agents[a].memory = agents[self].memory
     THEN UNCHANGED <<memVars, idea, currentFocus, heap>>
     ELSE LET m == heap[agents[a].memory]
          IN /\ heap' = [o \in (DOMAIN heap \cup {agents[self].memory}) \ {agents[a].memory} |->
                           IF o = agents[self].memory THEN memoryFields ELSE heap[o]]
             /\ todos' = m.todos
             /\ analyses' = m.analyses
             /\ recommendations' = m.recommendations
             /\ userConcerns' = m.userConcerns
             /\ lastUpdatedAt' = m.lastUpdatedAt
             /\ idea' = m.idea
             /\ currentFocus' = m.currentFocus
  /\ last' = [Call("this") EXCEPT !.idx = a]
  /\ UNCHANGED <<now, agents>>

\* ------------------------------------------------------------------ clock

\* Time passes between two calls.
Tick ==
  /\ now < MaxNow
  /\ now' = now + 1
  /\ last' = Call("tick")
  /\ UNCHANGED memVars
  /\ UNCHANGED restVars

\* Waits around the cache lifetime: just short of it, exactly it, just past it.
Waits == {maxAge - 1, maxAge, maxAge + 1}

Advance(d) ==
  /\ now + d <= MaxHours * (maxAge + 1)
  /\ now' = now + d
  /\ last' = Call("tick")
  /\ UNCHANGED memVars
  /\ UNCHANGED restVars

\* ------------------------------------------------------------------ inputs

\* A todo of the manage_todos wire schema: no timestamps.
wire(c, s) ==
  [content |-> c, activeForm |-> "doing", status |-> s, priority |-> Undefined,
   createdAt |-> Undefined, completedAt |-> Undefined]

\* Todos handed to updateTodos: todos of the wire schema, and todos of direct
\* callers that carry a priority, another activeForm or their own timestamps
\* (-1: a time before the session).
IncomingTodo ==
  { wire("A", "pending"),
    wire("A", "completed"),
    wire("B", "in_progress"),
    [wire("B", "completed") EXCEPT !.completedAt = Some(-1)],
    [wire("A", "in_progress") EXCEPT !.createdAt = Some(-1), !.completedAt = Some(-1),
                                     !.priority = Some("high"), !.activeForm = "working"],
    [wire("B", "pending") EXCEPT !.priority = Some("low")] }

\* Todos handed to updateTodos with and without a createdAt of their own.
TimedTodo ==
  { wire("A", "pending"),
    wire("B", "pending"),
    [wire("B", "pending") EXCEPT !.createdAt = Some(-1)] }

\* Todos the agent hands to the manage_todos tool.
ToolTodo == {wire("A", "in_progress"), wire("B", "pending"), wire("A", "completed")}

SeqsUpTo(S, n) == UNION {[1..k -> S] : k \in 0..n}

AddPriority == {Undefined, Some("low")}

\* Lists handed to the sort: every stored todo has a createdAt, and the todo at
\* position i is told apart by its content.
SortTimes == {0, 1}

SortKeys == [status : TodoStatus, priority : OptPriority, createdAt : SortTimes]

Label(i) == <<"A", "B", "C", "D", "E">>[i]

sortTodoAt(i, k) ==
  [content |-> Label(i), activeForm |-> "doing", status |-> k.status,
   priority |-> k.priority, createdAt |-> Some(k.createdAt),
   completedAt |-> IF k.status = "completed" THEN Some(k.createdAt) ELSE Undefined]

CachedKinds == {"competitor", "vcReport"}

\* Memories handed to buildContextSummary: each part of the working memory is
\* empty or filled, by the calls named.
\* updateIdea({description}), updateIdea({description, category, targetMarket}),
\* updateIdea({targetMarket})
SummaryIdeas ==
  { Undefined,
    Some([NoFields EXCEPT !.description = Some("An AI tutor")]),
    Some([description |-> Some("An AI tutor"), category |-> Some("EdTech"),
          targetMarket |-> Some("SMB")]),
    Some([NoFields EXCEPT !.targetMarket = Some("SMB")]) }

\* cacheAnalysis(kind, data) at the time 0
cachedAtStart(kind, data) == [kind |-> kind, data |-> data, timestamp |-> 0]

SummaryCaches ==
  { <<>>,
    <<cachedAtStart("competitor", "report")>>,
    <<cachedAtStart("vcReport", "report"), cachedAtStart("competitor", "report")>>,
    <<cachedAtStart("market", "")>> }

\* setFocus("market")
SummaryFocus == {Undefined, Some("market")}

\* addUserConcern, addRecommendation
SummaryConcerns == {<<>>, <<"pricing", "risks">>}

SummaryRecommendations == {<<>>, <<"Talk to ten customers">>}

\* updateTodos(list)
SummaryKeys ==
  { [status |-> "in_progress", priority |-> Some("high"), createdAt |-> 1],
    [status |-> "pending", priority |-> Undefined, createdAt |-> 0],
    [status |-> "pending", priority |-> Some("high"), createdAt |-> 1],
    [status |-> "completed", priority |-> Some("low"), createdAt |-> 0] }

\* Messages about competitors, markets, customers and reports.
IntentPieces ==
  {"Competitor", "zh-jingzheng", "zh-duishou", "market", " size", "TAM", "customer",
   "vc", " please"}

\* Messages announcing an idea: "tr", "AI", "ning" in a row spell training.
IdeaPieces ==
  {"I want to build", "zh-kaifa", "zh-yige", " an ", "AI", "tr", "ning", "developer",
   "Startup", "learning"}

ExtractMessages == SeqsUpTo(IntentPieces, MaxWords) \cup SeqsUpTo(IdeaPieces, MaxWords)

\* Partial ideas handed to updateIdea: a target market alone, and a description
\* with its category.
IdeaUpdates ==
  { [NoFields EXCEPT !.targetMarket = Some("SMB")],
    [NoFields EXCEPT !.description = Some("An AI tutor"), !.category = Some("EdTech")] }

\* Messages sent to chat(): an idea, a question about competitors and their
\* pricing, a request for the report.
ChatMessages ==
  { <<"I want to build", " an ", "AI", " tutor">>,
    <<"Competitor", " ", "pricing">>,
    <<"vc">> }

\* One message for every intent.
IntentMessages ==
  { <<"Competitor", " ", "pricing">>, <<"market", " size">>, <<"customer">>, <<"vc">>,
    <<" please">> }

summaryTodoAt(i, k) == [sortTodoAt(i, k) EXCEPT !.activeForm = "Doing " \o Label(i)]

\* ------------------------------------------------------------------ specifications

\* The three todo mutations on one session.
NextTodos ==
  \/ \E c \in Contents, p \in AddPriority : AddTodo(c, "working", p)
  \/ \E l \in SeqsUpTo(IncomingTodo, MaxTodos) : UpdateTodos(l)
  \/ \E i \in -1..MaxTodos, s \in TodoStatus : UpdateTodoStatus(i, s)
  \/ Tick

SpecTodos == Init /\ [][NextTodos]_vars

\* addTodo and updateTodos: the lists updateTodos replaces and is handed.
NextUpdate ==
  \/ \E c \in Contents, p \in AddPriority : AddTodo(c, "working", p)
  \/ \E l \in SeqsUpTo(IncomingTodo, MaxTodos) : UpdateTodos(l)
  \/ Tick

SpecUpdate == Init /\ [][NextUpdate]_vars

\* addTodo and updateTodoStatus, with indexes from -1 to one past MaxTodos - 1.
NextStatus ==
  \/ \E c \in Contents : AddTodo(c, "working", Undefined)
  \/ \E i \in -1..MaxTodos, s \in TodoStatus : UpdateTodoStatus(i, s)
  \/ Tick

SpecStatus == Init /\ [][NextStatus]_vars

\* The sort as a function of the stored list: every list of up to MaxSort todos.
InitSort ==
  /\ now = 0
  /\ \E n \in 0..MaxSort : \E f \in [1..n -> SortKeys] :
       todos = [i \in 1..n |-> sortTodoAt(i, f[i])]
  /\ analyses = <<>>
  /\ recommendations = <<>>
  /\ userConcerns = <<>>
  /\ lastUpdatedAt = 0
  /\ last = NoCall
  /\ InitAgent

NextSort == GetTodos

SpecSort == InitSort /\ [][NextSort]_vars

\* The analysis cache and its three reads, with waits around the lifetime.
NextCache ==
  \/ \E k \in CachedKinds, d \in Data : CacheAnalysis(k, d)
  \/ \E k \in Kinds : GetCachedAnalysis(k)
  \/ \E k \in Kinds : HasAnalysis(k)
  \/ GetCompletedAnalyses
  \/ \E d \in Waits : Advance(d)

SpecCache == Init /\ [][NextCache]_vars

\* Recommendations and user concerns.
NextLists ==
  \/ \E s \in Strings : AddRecommendation(s)
  \/ ClearRecommendations
  \/ \E s \in Strings : AddUserConcern(s)
  \/ Tick

SpecLists == Init /\ [][NextLists]_vars

\* The manage_todos tool as the agent runtime calls it, on lists built by addTodo.
NextTool ==
  \/ \E c \in Contents, p \in AddPriority : AddTodo(c, "working", p)
  \/ \E l \in SeqsUpTo(ToolTodo, MaxTodos) : InvokeManageTodos(l)
  \/ Tick

SpecTool == Init /\ [][NextTool]_vars

\* getProgress() as a function of the stored list.
NextProgress == GetProgress

SpecProgress == InitSort /\ [][NextProgress]_vars

\* buildContextSummary() as a function of the working memory and the clock.
InitSummary ==
  /\ now = 0
  /\ \E n \in 0..MaxTodos : \E f \in [1..n -> SummaryKeys] :
       todos = [i \in 1..n |-> summaryTodoAt(i, f[i])]
  /\ analyses \in SummaryCaches
  /\ recommendations \in SummaryRecommendations
  /\ userConcerns \in SummaryConcerns
  /\ lastUpdatedAt = 0
  /\ last = NoCall
  /\ idea \in SummaryIdeas
  /\ currentFocus \in SummaryFocus
  /\ userMessage = <<>>
  /\ InitObjects

NextSummary ==
  \/ BuildContextSummary
  \/ \E d \in Waits : Advance(d)

SpecSummary == InitSummary /\ [][NextSummary]_vars

\* The working memory filled call by call, and the summary built over it.
NextContext ==
  \/ \E partial \in IdeaUpdates : UpdateIdea(partial)
  \/ SetFocus("market")
  \/ \E d \in Data : CacheAnalysis("market", d)
  \/ AddUserConcern("pricing")
  \/ AddTodo("A", "working", Some("high"))
  \/ BuildContextSummary
  \/ Tick

SpecContext == Init /\ [][NextContext]_vars

\* The three todo mutations, on todos that differ in their createdAt.
NextTimed ==
  \/ \E c \in Contents : AddTodo(c, "working", Undefined)
  \/ \E l \in SeqsUpTo(TimedTodo, MaxTodos) : UpdateTodos(l)
  \/ \E i \in 0..(MaxTodos - 1) : UpdateTodoStatus(i, "in_progress")
  \/ Tick

SpecTimed == Init /\ [][NextTimed]_vars

\* The reads of the todo list between its mutations.
NextReads ==
  \/ AddTodo("A", "working", Some("low"))
  \/ AddTodo("B", "working", Undefined)
  \/ \E i \in 0..(MaxTodos - 1) : UpdateTodoStatus(i, "in_progress")
  \/ GetTodos
  \/ GetProgress
  \/ GetCurrentTodo
  \/ BuildContextSummary
  \/ Tick

SpecReads == Init /\ [][NextReads]_vars

\* The extractor as three functions of the message.
InitExtract ==
  /\ now = 0
  /\ todos = <<>>
  /\ analyses = <<>>
  /\ recommendations = <<>>
  /\ userConcerns = <<>>
  /\ lastUpdatedAt = 0
  /\ last = NoCall
  /\ idea = Undefined
  /\ currentFocus = Undefined
  /\ userMessage \in ExtractMessages
  /\ InitObjects

NextExtract ==
  \/ ExtractIdeaFromMessage(userMessage)
  \/ ExtractUserConcerns(userMessage)
  \/ DetectUserIntent(userMessage)

SpecExtract == InitExtract /\ [][NextExtract]_vars

\* Chat turns on one agent; nothing in chat() keeps a caller from calling it
\* again before the turn before has returned.
NextChat ==
  \/ \E m \in ChatMessages : Chat(m)
  \/ \E i \in 1..Len(pending) : \E trace \in AgentTraces(pending[i].messages) :
       AgentReturns(i, trace)
  \/ Tick

SpecChat == Init /\ [][NextChat]_vars

\* Chat turns of every intent, answered without a tool.
NextFocus ==
  \/ \E m \in IntentMessages : Chat(m)
  \/ \E i \in 1..Len(pending) : AgentReturns(i, <<AIMessage("answer", <<>>)>>)

SpecFocus == Init /\ [][NextFocus]_vars

\* Chat turns whose agent calls several tools, with and without results.
NextTools ==
  \/ Chat(<<"vc">>)
  \/ \E i \in 1..Len(pending) : \E trace \in ToolTraces(pending[i].messages) :
       AgentReturns(i, trace)
  \/ Tick

SpecTools == Init /\ [][NextTools]_vars

\* Chat turns whose agent invocation returns or fails.
NextFailure ==
  \/ \E m \in {<<"I want to build", " an ", "AI", " tutor">>, <<"vc">>} : Chat(m)
  \/ \E i \in 1..Len(pending) : \E trace \in AgentTraces(pending[i].messages) :
       AgentReturns(i, trace)
  \/ \E i \in 1..Len(pending) : AgentFails(i)

SpecFailure == Init /\ [][NextFailure]_vars

\* Several agents: each agent chats once and notes concerns.
NextSessions ==
  \/ NewContextAwareAgent
  \/ \E isolatedMemory \in BOOLEAN, owner \in {Undefined} \cup {Some(a) : a \in DOMAIN agents} :
       NewSubAgent(isolatedMemory, owner)
  \/ \E a \in DOMAIN agents : Switch(a)
  \/ AddUserConcern("risks")
  \/ turn = 0 /\ Chat(<<"Competitor", " ", "pricing">>)
  \/ \E i \in 1..Len(pending) : \E trace \in AgentTraces(pending[i].messages) :
       AgentReturns(i, trace)

SpecSessions == Init /\ [][NextSessions]_vars

\* Every operation of the session.
Next ==
  \/ NextTodos \/ NextSort \/ NextCache \/ NextLists \/ NextTool
  \/ NextProgress \/ NextSummary \/ NextContext \/ NextTimed \/ NextReads \/ NextExtract \/ NextChat \/ NextFocus \/ NextTools \/ NextFailure \/ NextSessions

Spec == Init /\ [][Next]_vars

\* ------------------------------------------------------------------ claims

\* The orders the documentation states, first to last.
StatusOrder == <<"in_progress", "pending", "completed">>

PriorityOrder == <<"high", "medium", "low">>

rankIn(order, x) == CHOOSE i \in 1..Len(order) : order[i] = x

\* The three sort keys of a stored todo; an absent priority counts as medium.
sortKey(t) ==
  <<rankIn(StatusOrder, t.status),
    rankIn(PriorityOrder, IF t.priority = Undefined THEN "medium" ELSE t.priority[1]),
    t.createdAt[1]>>

keyBefore(k1, k2) ==
  \/ k1[1] < k2[1]
  \/ k1[1] = k2[1] /\ k1[2] < k2[2]
  \/ k1[1] = k2[1] /\ k1[2] = k2[2] /\ k1[3] < k2[3]

countIn(list, x) == Cardinality({i \in 1..Len(list) : list[i] = x})

withKey(list, k) == SelectSeq(list, LAMBDA t : sortKey(t) = k)

\* C1: getTodos() returns a permutation of the stored todos, ordered by status
\* rank, then priority rank (absent = medium), then createdAt ascending; todos
\* whose three keys tie keep their storage order; in_progress todos come before
\* pending ones, and those before completed ones.
C1_SortTotality ==
  last.op = "getTodos" =>
    LET out == last.list
    IN /\ Len(out) = Len(todos)
       /\ \A t \in Range(todos) \cup Range(out) : countIn(out, t) = countIn(todos, t)
       /\ \A i \in 1..(Len(out) - 1) : ~keyBefore(sortKey(out[i + 1]), sortKey(out[i]))
       /\ \A t \in Range(todos) : withKey(out, sortKey(t)) = withKey(todos, sortKey(t))
       /\ \A i, j \in 1..Len(out) :
            i < j => rankIn(StatusOrder, out[i].status) <= rankIn(StatusOrder, out[j].status)

\* C1's case: three stored todos that the sort reorders, two of them tied on all
\* three keys (one by its absent priority) and stored ahead of an in_progress todo.
C1_Witness ==
  /\ last.op = "getTodos"
  /\ Len(todos) = 3
  /\ todos[1].status = "pending" /\ todos[1].priority = Undefined
  /\ todos[2].status = "pending" /\ todos[2].priority = Some("medium")
  /\ todos[1].createdAt = todos[2].createdAt
  /\ todos[3].status = "in_progress"
  /\ last.list = <<todos[3], todos[1], todos[2]>>

OneHour == 60 * 60 * 1000

\* The entry cached for a kind is present and at most one hour old.
fresh(kind) ==
  \E i \in 1..Len(analyses) :
    analyses[i].kind = kind /\ now - analyses[i].timestamp <= OneHour

dataOf(kind) == analyses[CHOOSE i \in 1..Len(analyses) : analyses[i].kind = kind].data

\* C2: getCachedAnalysis(kind) returns the cached data iff an entry for kind
\* exists and now - timestamp <= 1 hour; otherwise it returns absent; it never raises.
C2_CacheTtl ==
  last.op = "getCachedAnalysis" =>
    /\ last.threw = Undefined
    /\ last.val = IF fresh(last.str) THEN Some(dataOf(last.str)) ELSE Undefined

\* C2's case: a read exactly one hour after the value was cached returns it.
C2_Witness ==
  /\ last.op = "getCachedAnalysis"
  /\ \E i \in 1..Len(analyses) :
       /\ analyses[i].kind = last.str
       /\ now - analyses[i].timestamp = OneHour
       /\ last.val = Some(analyses[i].data)

\* C3: hasAnalysis(kind) is true, and kind is listed by getCompletedAnalyses(),
\* iff a cache entry for kind is present and unexpired, whatever data was cached.
C3_CompletedIffFresh ==
  /\ last.op = "hasAnalysis" => (last.flag <=> fresh(last.str))
  /\ last.op = "getCompletedAnalyses" => Range(last.list) = {k \in Kinds : fresh(k)}

C5_CompletedAtIffCompleted ==
  \A i \in 1..Len(todos) :
    todos[i].completedAt # Undefined <=> todos[i].status = "completed"

\* C6: updateTodos is a full replace: the stored list is the incoming list, in
\* its order, with its content, activeForm, status and priority; stored todos
\* whose content is not incoming are gone; updateTodos([]) empties the list.
C6_FullReplace ==
  [][last'.op = "updateTodos" =>
       /\ Len(todos') = Len(last'.list)
       /\ \A i \in 1..Len(last'.list) :
            /\ todos'[i].content = last'.list[i].content
            /\ todos'[i].activeForm = last'.list[i].activeForm
            /\ todos'[i].status = last'.list[i].status
            /\ todos'[i].priority = last'.list[i].priority
       /\ \A j \in 1..Len(todos) :
            (\A i \in 1..Len(last'.list) : last'.list[i].content # todos[j].content)
            => \A i \in 1..Len(todos') : todos'[i].content # todos[j].content
       /\ (last'.list = <<>> => todos' = <<>>)]_vars

\* C6's case: a stored todo (addTodo stores a priority and the activeForm
\* "working") was replaced by an incoming todo of the same content.
C6_Witness ==
  /\ last.op = "updateTodos"
  /\ Len(todos) = 1
  /\ todos[1].createdAt # Some(now)
  /\ todos[1].createdAt # last.list[1].createdAt
  /\ todos[1].activeForm = "doing"
  /\ todos[1].priority = Undefined

\* C7: updateTodoStatus with an index outside 0..length-1 raises nothing and
\* changes nothing.
C7_OutOfRangeNoOp ==
  [][(last'.op = "updateTodoStatus" /\ last'.idx \notin 0..(Len(todos) - 1)) =>
       /\ last'.threw = Undefined
       /\ UNCHANGED <<todos, analyses, recommendations, userConcerns, lastUpdatedAt>>]_vars

\* C7's case: updateTodoStatus(2, "completed") on a list of two todos, later
\* than their last change.
C7_Witness ==
  /\ last.op = "updateTodoStatus"
  /\ Len(todos) = 2
  /\ last.idx = 2
  /\ last.str = "completed"
  /\ lastUpdatedAt < now

noDuplicates(list) == \A i, j \in 1..Len(list) : list[i] = list[j] => i = j

appendedOnce(op, before, after) ==
  last'.op = op =>
    IF last'.str \in Range(before)
    THEN UNCHANGED <<todos, analyses, recommendations, userConcerns, lastUpdatedAt>>
    ELSE after = Append(before, last'.str)

\* C8: addUserConcern and addRecommendation append a string that is not in the
\* list yet and change no state for one that is, so each list holds every
\* string once, in the order of first insertion.
C8_IdempotentAppend ==
  /\ [](noDuplicates(userConcerns) /\ noDuplicates(recommendations))
  /\ [][/\ appendedOnce("addUserConcern", userConcerns, userConcerns')
        /\ appendedOnce("addRecommendation", recommendations, recommendations')]_vars

\* C8's case: addUserConcern of the string inserted first, after a second one
\* was inserted and time has passed.
C8_Witness ==
  /\ last.op = "addUserConcern"
  /\ Len(userConcerns) >= 2
  /\ last.str = userConcerns[1]
  /\ lastUpdatedAt < now

sameTodoFields(a, b) ==
  /\ a.content = b.content
  /\ a.activeForm = b.activeForm
  /\ a.status = b.status
  /\ a.priority = b.priority

\* C9: a manage_todos tool call replaces the session's todo list with the
\* supplied list.
C9_ToolReplacesTodos ==
  last.op = "manage_todos" =>
    /\ Len(todos) = Len(last.list)
    /\ \A i \in 1..Len(last.list) : sameTodoFields(todos[i], last.list[i])

\* C10: manageTodos without a memory context raises the missing-context error,
\* which the tool hands back as an error result, and changes no state.
C10_MissingContext ==
  [][(last'.op = "manage_todos" /\ ~last'.flag) =>
       /\ last'.threw = Some(MissingContext)
       /\ last'.val = Some("error")
       /\ UNCHANGED <<todos, analyses, recommendations, userConcerns, lastUpdatedAt>>]_vars

\* C10's case: the tool is called with a list that differs from the stored todos.
C10_Witness ==
  /\ last.op = "manage_todos"
  /\ ~last.flag
  /\ last.threw = Some(MissingContext)
  /\ todos # <<>>
  /\ last.list # <<>>
  /\ todos[1].content # last.list[1].content

\* The memory holds nothing to show: no idea, no cached analysis that is
\* unexpired, no focus, no concern, no recommendation, no todo.
nothingToShow ==
  /\ idea = Undefined
  /\ \A k \in Kinds : ~fresh(k)
  /\ currentFocus = Undefined
  /\ userConcerns = <<>>
  /\ recommendations = <<>>
  /\ todos = <<>>

\* C11: buildContextSummary() returns the empty string whenever the working
\* memory has no idea, no present and unexpired analysis, no focus, no concern,
\* no recommendation and no todo: on a fresh MemoryManager, and again once every
\* cached analysis has expired.
C11_ContextEmptiness ==
  (last.op = "buildContextSummary" /\ nothingToShow) => last.text = EmptyString

\* C11's case: the memory holds cached analyses only, all of them expired.
C11_Witness ==
  /\ last.op = "buildContextSummary"
  /\ nothingToShow
  /\ Len(analyses) = 2
  /\ last.text = EmptyString

withoutEmptyLines(text) == SelectSeq(text, LAMBDA line : line # "")

presentLine(v, label) == IF v # Undefined /\ v[1] # "" THEN <<label \o v[1]>> ELSE <<>>

freshKinds == SelectSeq([i \in 1..Len(analyses) |-> analyses[i].kind], fresh)

bullets(header, list) ==
  IF list = <<>> THEN <<>> ELSE <<header>> \o [i \in 1..Len(list) |-> "- " \o list[i]]

iconOf(status) ==
  CASE status = "completed" -> "(check)"
    [] status = "in_progress" -> "(bolt)"
    [] status = "pending" -> "(hourglass)"

tagOf(priority) ==
  CASE priority = Some("high") -> " [HIGH]"
    [] priority = Some("low") -> " [LOW]"
    [] OTHER -> ""

\* The lines of the context block as the documented format lays them out, every
\* section and line present iff its data is.
documentedLines ==
  LET shown == sortTodos
      inProgress == SelectSeq(todos, LAMBDA t : t.status = "in_progress")
  IN presentLine(IF idea = Undefined THEN Undefined ELSE idea[1].description, "STARTUP IDEA: ")
     \o presentLine(IF idea = Undefined THEN Undefined ELSE idea[1].targetMarket, "Target Market: ")
     \o presentLine(IF idea = Undefined THEN Undefined ELSE idea[1].category, "Category: ")
     \o (IF freshKinds = <<>> THEN <<>>
         ELSE <<"COMPLETED ANALYSES: " \o join(freshKinds, ", ")>>)
     \o presentLine(currentFocus, "CURRENT FOCUS: ")
     \o bullets("USER CONCERNS:", userConcerns)
     \o bullets("RECOMMENDATIONS:", recommendations)
     \o (IF todos = <<>> THEN <<>>
         ELSE <<"TODOS (" \o ToString(countStatus(todos, "completed")) \o "/"
                \o ToString(Len(todos)) \o " completed):">>
              \o [i \in 1..Len(shown) |->
                    "  " \o ToString(i) \o ". " \o iconOf(shown[i].status) \o " "
                         \o shown[i].content \o tagOf(shown[i].priority)]
              \o (IF inProgress = <<>> THEN <<>>
                  ELSE <<"CURRENT TASK: " \o inProgress[1].activeForm>>))

\* C12: a non-empty buildContextSummary() lies between the two markers and
\* holds, in the fixed order idea (description, target market, category),
\* completed analyses, focus, concerns, recommendations, todos, current task,
\* exactly the sections and lines whose data is non-empty; the todo lines are
\* numbered in getTodos() order with the icon of their status and a tag for
\* high and low only, under a header showing completed/total.
C12_ContextFormat ==
  (last.op = "buildContextSummary" /\ last.text # EmptyString) =>
    LET lines == withoutEmptyLines(last.text)
    IN /\ lines[1] = "--- CONTEXT ---"
       /\ lines[Len(lines)] = "--- END CONTEXT ---"
       /\ SubSeq(lines, 2, Len(lines) - 1) = documentedLines

\* C13: at most one stored todo has the status in_progress.
C13_SingleInProgress == countStatus(todos, "in_progress") <= 1

\* C14: getProgress() returns total = the number of stored todos and completed,
\* inProgress, pending = the number of stored todos of that status, which add
\* up to total; percentage = completed/total*100, and 0 for no todo, so it is
\* 100 iff there is a todo and every todo is completed.
C14_Progress ==
  last.op = "getProgress" =>
    LET r == last.progress
        count(status) == Cardinality({i \in 1..Len(todos) : todos[i].status = status})
    IN /\ r.total = Len(todos)
       /\ r.completed = count("completed")
       /\ r.inProgress = count("in_progress")
       /\ r.pending = count("pending")
       /\ r.completed + r.inProgress + r.pending = r.total
       /\ r.percentage.den > 0
       /\ IF r.total = 0 THEN r.percentage.num = 0
          ELSE r.percentage.num * r.total = r.completed * 100 * r.percentage.den
       /\ (r.percentage.num = 100 * r.percentage.den) <=>
            (todos # <<>> /\ \A i \in 1..Len(todos) : todos[i].status = "completed")

\* C14's case: three todos, one of each status: a third is completed.
C14_Witness ==
  /\ last.op = "getProgress"
  /\ last.progress.total = 3
  /\ last.progress.completed = 1
  /\ last.progress.inProgress = 1
  /\ last.progress.pending = 1
  /\ last.progress.percentage = [num |-> 100, den |-> 3]

Intents == {"ask_competitor", "ask_market", "ask_customer", "ask_report", "general"}

\* C19: detectUserIntent(text) returns one of the five intents: that of the
\* first keyword group, in the order competitor, market, customer, report, with
\* a keyword in the lower-cased text, and general when no group has one.
C19_IntentFirstGroup ==
  last.op = "detectUserIntent" =>
    LET text == toLowerCase(last.list)
        groups == << <<"ask_competitor", competitorKeywords>>, <<"ask_market", marketSizeKeywords>>,
                     <<"ask_customer", customerKeywords>>, <<"ask_report", reportKeywords>> >>
        matching == {g \in 1..4 : \E k \in 1..Len(groups[g][2]) : includes(text, groups[g][2][k])}
    IN /\ last.str \in Intents
       /\ last.threw = Undefined
       /\ matching = {} => last.str = "general"
       /\ matching # {} =>
            \E g \in matching : (\A h \in matching : g <= h) /\ last.str = groups[g][1]

\* C19's case: a text written with capitals that names the market size (TAM)
\* ahead of a customer and a report keyword is ask_market.
C19_Witness ==
  /\ last.op = "detectUserIntent"
  /\ last.list = <<"vc", "customer", "TAM">>
  /\ last.str = "ask_market"

firstHit(table, text) ==
  LET hits == {i \in 1..Len(table) :
                 \E k \in 1..Len(table[i].keywords) : includes(text, table[i].keywords[k])}
  IN IF hits = {} THEN Undefined
     ELSE Some(table[CHOOSE i \in hits : \A j \in hits : i <= j].name)

\* C20: extractIdeaFromMessage(text) returns absent iff the text holds none of
\* the idea-announcing phrases (whatever its capitals); otherwise description
\* is the whole text as written, category the first category of the table with
\* a keyword in the text and targetMarket the first market of the table with a
\* keyword in the text, each absent if there is none; it never raises.
C20_IdeaExtraction ==
  last.op = "extractIdeaFromMessage" =>
    LET text == toLowerCase(last.list)
        announced == \E k \in 1..Len(ideaIndicators) : includes(text, ideaIndicators[k])
    IN /\ last.threw = Undefined
       /\ last.idea = Undefined <=> ~announced
       /\ announced =>
            /\ last.idea[1].description = Some(textOf(last.list))
            /\ last.idea[1].category = firstHit(categoryKeywords, text)
            /\ last.idea[1].targetMarket = firstHit(marketKeywords, text)

\* C20's case: an idea announced with a capital, with keywords of two
\* categories (Developer Tools, AI) and of two markets.
C20_Witness ==
  /\ last.op = "extractIdeaFromMessage"
  /\ last.list = <<"I want to build", "AI", "developer">>
  /\ last.idea = Some([description |-> Some("I want to buildAIdeveloper"),
                       category |-> Some("Developer Tools"),
                       targetMarket |-> Some("zh-gerenkaifazhe")])

\* The COMPLETED ANALYSES lines a prompt can hold.
completedLine(kinds) == "COMPLETED ANALYSES: " \o join(kinds, ", ")

completedLines == {completedLine(kinds) : kinds \in SeqsUpTo(Kinds, 2) \ {<<>>}}

\* C15: within a chat turn the idea and the concerns of the message are merged
\* and the focus of its intent is set before the system prompt is built, and
\* the tool results are cached only after the agent has returned: the prompt
\* handed over with turn N shows the idea, concerns and focus of message N and
\* the analyses cached by the turns that returned before, not those of turn N.
C15_TurnOrder ==
  [][/\ last'.op = "chat" =>
          LET message == last'.list
              ideaInfo == extractIdeaFromMessage(message)
              focus == focusOf(detectUserIntent(message))
              prompt == Range(systemPrompt')
          IN /\ ideaInfo # Undefined => ("STARTUP IDEA: " \o textOf(message)) \in prompt
             /\ \A c \in Range(extractUserConcerns(message)) : ("- " \o c) \in prompt
             /\ focus # Undefined => ("CURRENT FOCUS: " \o focus[1]) \in prompt
             /\ analyses' = analyses
             /\ prompt \cap completedLines =
                  IF getCompletedAnalyses = <<>> THEN {}
                  ELSE {completedLine(getCompletedAnalyses)}
             /\ pending'[Len(pending')].systemPrompt = systemPrompt'
     /\ last'.op = "chat returned" =>
          /\ systemPrompt' = systemPrompt
          /\ \A w \in Range(toolResults(messageHistory')) :
               \E i \in 1..Len(analyses') :
                 /\ analyses'[i].kind = w.kind
                 /\ analyses'[i].timestamp = now
                 /\ \E v \in Range(toolResults(messageHistory')) :
                      v.kind = w.kind /\ analyses'[i].data = v.data]_vars

\* C15's case: the second turn, after a first turn that announced the idea and
\* ran the competitor analysis: its prompt shows the idea, the analysis, and
\* the focus and the concerns of its own message.
C15_Witness ==
  /\ last.op = "chat"
  /\ turn = 2
  /\ {"STARTUP IDEA: I want to build an AI tutor", "COMPLETED ANALYSES: competitor",
      "CURRENT FOCUS: competitor", "- pricing", "- competition"} \subseteq Range(systemPrompt)

\* C16: every chat turn hands the full message history, the new message last,
\* to the external agent exactly once, whether or not the cache holds an
\* unexpired analysis for the intent's kind; the cache check changes nothing.
C16_AlwaysDelegates ==
  [][last'.op = "chat" =>
       /\ turn' = turn + 1
       /\ messageHistory' = Append(messageHistory, HumanMessage(textOf(last'.list)))
       /\ pending' = Append(pending, [messages |-> messageHistory', systemPrompt |-> systemPrompt'])
       /\ UNCHANGED <<todos, analyses, recommendations>>]_vars

\* C16's case: a second question about competitors while the competitor
\* analysis of the first turn is cached and unexpired.
C16_Witness ==
  /\ last.op = "chat"
  /\ last.str = "ask_competitor"
  /\ last.val = Some("report")
  /\ Len(pending) = 1
  /\ pending[1].messages = messageHistory
  /\ Len(messageHistory) > 1

humanMessages(messages) == SelectSeq(messages, LAMBDA m : m.type = "human")

\* C17: no two chat() executions on one ContextAwareAgent overlap across the
\* await on the external agent, and no turn's messages are lost: once every
\* turn has returned the history holds the message of every turn.
C17_NoOverlap ==
  /\ Len(pending) <= 1
  /\ pending = <<>> => Len(humanMessages(messageHistory)) = turn

\* The working memory an agent sees through its memory field.
memoryView(a) ==
  IF agents[a].memory = agents[self].memory THEN memoryFields ELSE heap[agents[a].memory]

\* C18: an operation or chat turn on one session leaves the working memory of
\* every other session as it was, however the sessions' calls interleave.
C18_SessionIsolation ==
  [][\A a \in DOMAIN agents :
       agents[a].session # agents[self].session => memoryView(a)' = memoryView(a)]_vars

\* C18's case: two sessions with a chat turn each, the second returned while
\* the first is still waiting, and a different memory in each.
C18_Witness ==
  /\ last.op = "chat returned"
  /\ \E a \in DOMAIN agents :
       /\ agents[a].session # agents[self].session
       /\ parked[a].pending # <<>>
       /\ memoryView(a).analyses = <<>>
       /\ memoryView(a).userConcerns = <<"risks", "pricing", "competition">>
  /\ analyses # <<>>
  /\ userConcerns = <<"pricing", "competition">>

ReadOps == {"getTodos", "getProgress", "getCurrentTodo", "buildContextSummary"}

\* C21: getTodos() returns a new, sorted list, and getTodos(), getProgress(),
\* getCurrentTodo() and buildContextSummary() leave the stored todo list and its
\* order as they were, so the index of a later updateTodoStatus addresses the
\* same todo as before the reads.
C21_ReadsKeepStorage ==
  [][last'.op \in ReadOps =>
       /\ todos' = todos
       /\ (last'.op = "getTodos" => last'.list = sortList(todos))]_vars

\* C21's case: getTodos() returned two stored todos in the other order.
C21_Witness ==
  /\ last.op = "getTodos"
  /\ Len(todos) = 2
  /\ todos[1].content # todos[2].content
  /\ last.list = <<todos[2], todos[1]>>

entriesOf(cache, kind) == SelectSeq(cache, LAMBDA e : e.kind = kind)

\* C22: cacheAnalysis(kind, data) leaves one entry for kind, {data, timestamp:
\* now}, and the entries of the other kinds as they were; getCachedAnalysis(kind)
\* called next returns that data, also when the entry replaced had expired.
C22_CacheOverwrite ==
  [][/\ last'.op = "cacheAnalysis" =>
          /\ entriesOf(analyses', last'.str)
               = <<[kind |-> last'.str, data |-> last'.val[1], timestamp |-> now]>>
          /\ \A k \in Kinds \ {last'.str} : entriesOf(analyses', k) = entriesOf(analyses, k)
     /\ (last.op = "cacheAnalysis" /\ last'.op = "getCachedAnalysis" /\ last'.str = last.str)
          => last'.val = last.val]_vars

\* C22's case: the entry cached first was cached again after it, and the entry
\* cached after it, had expired.
C22_Witness ==
  /\ last.op = "cacheAnalysis"
  /\ Len(analyses) = 2
  /\ analyses[1].kind = last.str
  /\ analyses[1].timestamp = now
  /\ now - analyses[2].timestamp > OneHour

\* C23: updateTodoStatus(index, status) with an index in range changes only the
\* todo at position index of the stored order: its status becomes the given
\* status, its completedAt is set to now iff that status is completed, and its
\* content, activeForm, priority and createdAt, every other todo and the stored
\* order stay as they were.
C23_StatusUpdateFrame ==
  [][(last'.op = "updateTodoStatus" /\ last'.idx \in 0..(Len(todos) - 1)) =>
       LET at == last'.idx + 1
       IN /\ Len(todos') = Len(todos)
          /\ \A j \in 1..Len(todos) : j # at => todos'[j] = todos[j]
          /\ todos'[at].status = last'.str
          /\ todos'[at].completedAt =
               IF last'.str = "completed" THEN Some(now) ELSE todos[at].completedAt
          /\ todos'[at].content = todos[at].content
          /\ todos'[at].activeForm = todos[at].activeForm
          /\ todos'[at].priority = todos[at].priority
          /\ todos'[at].createdAt = todos[at].createdAt]_vars

\* C23's case: updateTodoStatus(0, "completed") after the second stored todo was
\* started, which getTodos() lists first: the first stored todo was completed,
\* later than it was created.
C23_Witness ==
  /\ last.op = "updateTodoStatus"
  /\ last.idx = 0
  /\ last.str = "completed"
  /\ Len(todos) = 2
  /\ todos[2].status = "in_progress"
  /\ todos[1].status = "completed"
  /\ todos[1].completedAt = Some(now)
  /\ todos[1].createdAt # Some(now)

\* C24: updateTodos keeps the completedAt of a todo that is already stored as
\* completed: an incoming completed todo of that content without completedAt is
\* stored with the stored completedAt.
C24_CompletedAtPreserved ==
  [][last'.op = "updateTodos" =>
       \A i \in 1..Len(last'.list) :
         LET incoming == last'.list[i]
             existingTodo == findByContent(todos, incoming.content)
         IN (/\ incoming.status = "completed"
             /\ incoming.completedAt = Undefined
             /\ existingTodo # Undefined
             /\ existingTodo[1].status = "completed"
             /\ existingTodo[1].completedAt # Undefined)
            => todos'[i].completedAt = existingTodo[1].completedAt]_vars

\* The table of the documentation: the cache kind of a tool name.
documentedKind(name) ==
  CASE name = "competitor_analysis" -> "competitor"
    [] name = "market_sizing" -> "market"
    [] name = "customer_analysis" -> "customer"
    [] name = "vc_evaluation_report" -> "vcReport"
    [] OTHER -> "none"

\* The tool calls of a trace that are cached under kind: <<i, j>> is the j-th
\* call of the i-th message, which has a result message.
answeredCalls(messages, kind) ==
  UNION { { <<i, j>> : j \in { c \in 1..Len(messages[i].tool_calls) :
                                /\ documentedKind(messages[i].tool_calls[c].name) = kind
                                /\ \E m \in 1..Len(messages) :
                                     messages[m].tool_call_id
                                       = Some(messages[i].tool_calls[c].id) } }
          : i \in 1..Len(messages) }

lastCall(calls) ==
  CHOOSE p \in calls : \A q \in calls : q[1] < p[1] \/ (q[1] = p[1] /\ q[2] <= p[2])

\* C25: when a chat turn returns, every kind with a tool call in the returned
\* trace that has a result message holds the content of the result of the last
\* such call, whatever that content is; the entries of every other kind are as
\* they were.
C25_ToolResultsCached ==
  [][last'.op = "chat returned" =>
       \A kind \in Kinds :
         LET calls == answeredCalls(messageHistory', kind)
         IN IF calls = {}
            THEN entriesOf(analyses', kind) = entriesOf(analyses, kind)
            ELSE LET p == lastCall(calls)
                     id == messageHistory'[p[1]].tool_calls[p[2]].id
                 IN /\ Len(entriesOf(analyses', kind)) = 1
                    /\ \E m \in 1..Len(messageHistory') :
                         /\ messageHistory'[m].tool_call_id = Some(id)
                         /\ entriesOf(analyses', kind)[1].data = messageHistory'[m].content]_vars

\* C25's case: a turn returned a message with two calls of competitor_analysis,
\* the second with an empty result, which is what the cache holds; a report
\* call without a result message in the trace left no vcReport entry.
C25_Witness ==
  /\ last.op = "chat returned"
  /\ \E i \in 1..Len(messageHistory) : Len(messageHistory[i].tool_calls) = 2
  /\ Len(entriesOf(analyses, "competitor")) = 1
  /\ entriesOf(analyses, "competitor")[1].data = ""
  /\ answeredCalls(messageHistory, "vcReport") = {}
  /\ \E i \in 1..Len(messageHistory) :
       /\ messageHistory[i].tool_calls # <<>>
       /\ messageHistory[i].tool_calls[1].name = "vc_evaluation_report"
  /\ entriesOf(analyses, "vcReport") = <<>>
  /\ lastUpdatedAt = now
  /\ now > 0

\* C26: a chat turn whose intent is ask_competitor, ask_market or ask_customer
\* sets the focus competitor, market or customer; a turn of another intent, and
\* the return of the agent, leave the focus as it was; the focus is never
\* strategy or general after a chat, and a focus that is set is never cleared.
C26_FocusFromIntent ==
  /\ [](currentFocus \notin {Some("strategy"), Some("general")})
  /\ [][/\ last'.op = "chat" =>
             currentFocus' =
               CASE last'.str = "ask_competitor" -> Some("competitor")
                 [] last'.str = "ask_market" -> Some("market")
                 [] last'.str = "ask_customer" -> Some("customer")
                 [] OTHER -> currentFocus
        /\ last'.op = "chat returned" => currentFocus' = currentFocus
        /\ currentFocus # Undefined => currentFocus' # Undefined]_vars

\* C26's case: the second turn asks for the report, and the focus is still the
\* one the first turn set.
C26_Witness ==
  /\ last.op = "chat"
  /\ turn = 2
  /\ last.str = "ask_report"
  /\ currentFocus = Some("customer")

\* a sorts before b, after b, or the comparator leaves them as they are.
notAfter(a, b) == compareTodos(a, b) <= 0

\* C27: every stored todo has a createdAt, so the comparator of the sort
\* compares stored todos by their timestamps when status and priority are
\* equal, and compares them consistently: antisymmetric and transitive.
C27_CreatedAtAlways ==
  /\ \A i \in 1..Len(todos) : todos[i].createdAt # Undefined
  /\ \A a, b \in Range(todos) :
       /\ (compareTodos(a, b) < 0) <=> (compareTodos(b, a) > 0)
       /\ (/\ a.status = b.status
           /\ priorityOrMedium(a) = priorityOrMedium(b)
           /\ compareTodos(a, b) = 0) => a.createdAt = b.createdAt
  /\ \A a, b, c \in Range(todos) : (notAfter(a, b) /\ notAfter(b, c)) => notAfter(a, c)

\* C27's case: updateTodos was handed a todo without createdAt that was not
\* stored, next to a stored one of the same status and priority: the new todo
\* got the time of the call and sorts behind the older one.
C27_Witness ==
  /\ last.op = "updateTodos"
  /\ Len(todos) = 2
  /\ last.list[2].createdAt = Undefined
  /\ todos[2].createdAt = Some(now)
  /\ todos[1].createdAt # Undefined
  /\ todos[1].createdAt # Some(now)
  /\ todos[1].status = todos[2].status
  /\ priorityOrMedium(todos[1]) = priorityOrMedium(todos[2])
  /\ compareTodos(todos[1], todos[2]) < 0

\* C28: whenever a stored todo is in_progress, getCurrentTodo() returns the
\* first element of getTodos(), so the CURRENT TASK line names item 1 of the
\* rendered todo list.
C28_CurrentIsFirst ==
  (\E i \in 1..Len(todos) : todos[i].status = "in_progress")
    => getCurrentTodo = Some(sortTodos[1])

\* The kinds whose tool is called in these messages.
calledKinds(messages) ==
  UNION { { documentedKind(messages[i].tool_calls[j].name) :
              j \in 1..Len(messages[i].tool_calls) } : i \in 1..Len(messages) }

\* C29: the timestamp of a cache entry is the time of the turn that called its
\* tool: a turn in which the agent makes no call of that tool leaves the
\* entry's data and timestamp as they were.
C29_TimestampOfItsTurn ==
  [][last'.op = "chat returned" =>
       \A kind \in Kinds \ calledKinds(last'.list) :
         entriesOf(analyses', kind) = entriesOf(analyses, kind)]_vars

\* C30: when the agent invocation of a chat turn fails, chat() fails with that
\* error, no cache entry is written, and what the turn has changed stays: the
\* merged idea and concerns, the focus and the message history with the user
\* message the turn has pushed; every turn sends the whole history, so the next
\* turn sends the failed turn's user message again.
C30_FailureKeepsChanges ==
  [][/\ last'.op = "chat failed" =>
          /\ last'.threw = Some(AgentError)
          /\ UNCHANGED <<analyses, idea, userConcerns, currentFocus, messageHistory>>
          /\ UNCHANGED <<todos, recommendations, lastUpdatedAt, systemPrompt>>
     /\ last'.op = "chat" =>
          /\ messageHistory' = Append(messageHistory, HumanMessage(textOf(last'.list)))
          /\ pending'[Len(pending')].messages = messageHistory']_vars

\* C30's case: the first turn, which announced the idea, has failed, and the
\* second turn is under way: it was handed both user messages, the idea of the
\* failed turn is in the memory and in the prompt, and nothing is cached.
C30_Witness ==
  /\ last.op = "chat"
  /\ turn = 2
  /\ Len(pending) = 1
  /\ pending[1].messages = <<HumanMessage("I want to build an AI tutor"), HumanMessage("vc")>>
  /\ messageHistory = pending[1].messages
  /\ idea # Undefined
  /\ "STARTUP IDEA: I want to build an AI tutor" \in Range(pending[1].systemPrompt)
  /\ analyses = <<>>

====
